---------------------------- MODULE Spec2Model ----------------------------
(***************************************************************************)
(* The I2C master driver of cpu/stm32l4/periph/i2c.c as a state machine:   *)
(* the bus initializer (i2c_init_master, _i2c_init), the per-bus mutex     *)
(* table (i2c_acquire, i2c_release), the transaction engine (_start, the   *)
(* three read paths, _write, _stop), the error interrupt (_i2c_irq) and    *)
(* the bus reset (_i2c_reset).                                             *)
(*                                                                         *)
(* The controller and the peer are the environment.  The controller        *)
(* answers the requests the transaction path issues (START, address,       *)
(* data, STOP) by raising the status flags the driver polls; every other   *)
(* register bit is storage that holds what the code last wrote into it.    *)
(***************************************************************************)
EXTENDS Integers, Sequences, FiniteSets, TLC

VARIABLES
    apbclk,          \* I2C_APBCLK, the peripheral clock the build configures
    sys,             \* clock gates, NVIC and GPIO configuration
    hw,              \* per bus: the register block and the state of the wire
    locks,           \* static mutex_t locks[]
    th,              \* per thread: position in the driver and its locals
    i2c_bus_error,   \* static volatile int8_t i2c_bus_error
    i2c_bus_result,  \* static int8_t i2c_bus_result
    now,             \* xtimer_now_usec()
    env,             \* the threads that run; faults and transactions so far
    im               \* the i2c_init_master call in progress

vars == <<apbclk, sys, hw, locks, th, i2c_bus_error, i2c_bus_result, now, env, im>>

-----------------------------------------------------------------------------
(* Program constants *)

NSEC_PER_USEC == 1000
USEC_PER_MSEC == 1000
MSEC_PER_SEC == 1000
NSEC_PER_SEC == NSEC_PER_USEC * USEC_PER_MSEC * MSEC_PER_SEC

\* the buses the build configures: one mutex and one error ISR each
I2C_NUMOF == 2

\* 100 ms, in microseconds
BUSY_TIMEOUT_US == 100000

Buses == 0 .. (I2C_NUMOF - 1)

(* Bounds of the model *)

\* device ids 0 .. MaxDev are passed to the public functions
MaxDev == 2

\* the calls pass lengths up to MaxLen
MaxLen == 4

\* a call is followed through at most MaxResets bus resets
MaxResets == 2

\* the threads start at most MaxTxn transactions each, on average
MaxTxn == 1

\* at most MaxFaults fault interrupts happen
MaxFaults == 1

\* one step of the clock, in microseconds
TickUs == 60000

DevIds == 0 .. MaxDev

-----------------------------------------------------------------------------
(* 32-bit unsigned arithmetic.  A uint32_t register value is the set of
   the positions of its 1 bits; a uint32_t time is the pair of its 16-bit
   halves <<high, low>>. *)

BitPos == 0 .. 31

\* the bits of a number below 2^31
Bits(n) == {k \in 0 .. 30 : (n \div (2 ^ k)) % 2 = 1}

RECURSIVE Val(_)
\* the number a set of bits below bit 31 stands for
Val(B) == IF B = {} THEN 0
          ELSE LET k == CHOOSE x \in B : TRUE IN (2 ^ k) + Val(B \ {k})

\* x - 1 on uint32_t: 0 - 1 wraps to 2^32 - 1
Dec32(x) == IF x = 0 THEN BitPos ELSE Bits(x - 1)

\* v << k on uint32_t
Shl(B, k) == {b + k : b \in B} \cap BitPos

\* v > limit on uint32_t
Gt32(B, limit) == 31 \in B \/ Val(B) > limit

\* bits lo .. lo + width - 1 of a register value, as a number
Field(B, lo, width) == Val({b - lo : b \in {x \in B : x >= lo /\ x < lo + width}})

\* (uint16_t) v
Low16(B) == {b \in B : b < 16}

Half == 2 ^ 16

W32(hi, lo) == <<hi, lo>>

\* a + n on uint32_t, for n below 2^16
Add32(a, n) ==
    LET lo == a[2] + n
    IN  W32((a[1] + (lo \div Half)) % Half, lo % Half)

\* a - b that stops at 0 instead of wrapping
Sub32_Saturating(a, b) ==
    IF a[1] < b[1] \/ (a[1] = b[1] /\ a[2] < b[2]) THEN W32(0, 0)
    ELSE LET lo == a[2] - b[2]
             borrow == IF lo < 0 THEN 1 ELSE 0
         IN  W32(a[1] - b[1] - borrow, lo % Half)

\* a - b on uint32_t
Sub32(a, b) ==
    LET lo == a[2] - b[2]
        borrow == IF lo < 0 THEN 1 ELSE 0
    IN  W32((a[1] - b[1] - borrow) % Half, lo % Half)

\* a > n on uint32_t, for a number n below 2^31
GtTime(a, n) ==
    \/ a[1] > n \div Half
    \/ a[1] = n \div Half /\ a[2] > n % Half

-----------------------------------------------------------------------------
(* Registers *)

\* the bits of control register 1 the driver names, and one of the
\* interrupt-enable bits that share the register with them
CR1Bits == {"PE", "ANFOFF", "NOSTRETCH", "SWRST", "START", "STOP", "ACK",
            "POS", "ERRIE"}

\* the seven fault bits, in the order _i2c_irq tests them
FaultOrder == <<"OVR", "NACKF", "ARLO", "BERR", "PECERR", "TIMEOUT", "ALERT">>

FaultBits == {FaultOrder[k] : k \in 1 .. Len(FaultOrder)}

NoByte == <<>>

Speeds == {"LOW", "NORMAL", "FAST", "HIGH"}

\* peripheral clocks a build may configure, in Hz
Clocks == {1000000, 8000000, 16000000, 80000000, 200000000, 400000000}

\* the clock of the build whose transactions are modelled
BootClk == 8000000

-----------------------------------------------------------------------------
(* i2c_init_master: the timing computation *)

\* a switch whose default case falls into the fast-mode values
SpeedKnown_Any(speed) == speed \in Speeds

\* the cases of switch (speed) that do not return
SpeedKnown(speed) == speed \in {"NORMAL", "FAST"}

i2c_h_min_time(speed) == IF speed = "NORMAL" THEN 4000 ELSE 600
i2c_l_min_time(speed) == IF speed = "NORMAL" THEN 4700 ELSE 1300
i2c_hold_time_min(speed) == IF speed = "NORMAL" THEN 500 ELSE 375
i2c_setup_time_min(speed) == IF speed = "NORMAL" THEN 1250 ELSE 500

t_presc(clk, presc) == clk \div presc
ns_presc(clk, presc) == NSEC_PER_SEC \div t_presc(clk, presc)

sclh(clk, speed, presc) == i2c_h_min_time(speed) \div ns_presc(clk, presc)
scll(clk, speed, presc) == i2c_l_min_time(speed) \div ns_presc(clk, presc)
sdadel(clk, speed, presc) == i2c_hold_time_min(speed) \div ns_presc(clk, presc)
scldel(clk, speed, presc) == i2c_setup_time_min(speed) \div ns_presc(clk, presc)

\* the loop test without its data-setup bound
OutOfRange_NoSetup(clk, speed, presc) ==
    \/ Gt32(Dec32(sclh(clk, speed, presc)), 255)
    \/ Gt32(Dec32(scll(clk, speed, presc)), 255)
    \/ sdadel(clk, speed, presc) > 15

\* the test of the loop body, on uint32_t
OutOfRange(clk, speed, presc) ==
    \/ Gt32(Dec32(sclh(clk, speed, presc)), 255)
    \/ Gt32(Dec32(scll(clk, speed, presc)), 255)
    \/ sdadel(clk, speed, presc) > 15
    \/ Gt32(Dec32(scldel(clk, speed, presc)), 15)

\* the packed timing register value
TimingValue(clk, speed, presc) ==
    Shl(Dec32(presc), 28)
    \cup Shl(Dec32(scldel(clk, speed, presc)), 20)
    \cup Shl(Bits(sdadel(clk, speed, presc)), 16)
    \cup Shl(Dec32(sclh(clk, speed, presc)), 8)
    \cup Dec32(scll(clk, speed, presc))

-----------------------------------------------------------------------------
(* _i2c_init, one register access after the other *)

\* i2c->CR1 &= ~I2C_CR1_PE
InitDisable(r) == [r EXCEPT !.CR1 = @ \ {"PE"}]

\* i2c->CR1 |= ~(I2C_CR1_ANFOFF)
InitFilter(r) == [r EXCEPT !.CR1 = @ \cup (CR1Bits \ {"ANFOFF"})]

\* i2c->TIMINGR = timing
InitTiming(r, timing) == [r EXCEPT !.TIMINGR = timing]

\* i2c->CR1 &= ~(I2C_CR1_NOSTRETCH); i2c->OAR1 = 0; i2c->CR1 |= I2C_CR1_PE
InitEnable(r) ==
    [r EXCEPT !.CR1 = (@ \ {"NOSTRETCH"}) \cup {"PE"}, !.OAR1 = 0]

I2cInit(r, timing) == InitEnable(InitTiming(InitFilter(InitDisable(r)), timing))

-----------------------------------------------------------------------------
(* State of one bus, of the system registers around it, and of a caller *)

Threads == {"t1", "t2"}

NoThread == "none"

\* no bus id: the thread holds no mutex
NoBus == 0 - 1

\* the caller's buffer holds BufSize bytes
BufSize == IF MaxLen > 3 THEN MaxLen ELSE 3

\* the register block after a power-on reset, on an idle wire
PowerOnRegs ==
    [CR1 |-> {}, CR2 |-> {}, SR1 |-> {}, ISR |-> {},
     TIMINGR |-> {}, CCR |-> {}, OAR1 |-> 0,
     phase |-> "idle", ext |-> FALSE, txn |-> NoThread, abyte |-> 0,
     dr |-> NoByte, sh |-> NoByte, cnt |-> 0, stopreq |-> FALSE,
     txdr |-> NoByte, sent |-> 0]

PowerOnSys ==
    [clk_en |-> {}, irq_en |-> {},
     irq_prio |-> [b \in Buses |-> "reset"],
     gpio |-> [b \in Buses |-> "reset"]]

IdleMain == [pc |-> "idle", api |-> "none", dev |-> 0, speed |-> "NORMAL",
             presc |-> 1, timing |-> {}, ret |-> 0]

FreshBuf == [k \in 0 .. (BufSize - 1) |-> NoByte]

IdleThread ==
    [pc |-> "idle", held |-> NoBus, api |-> "none", fn |-> "none",
     dev |-> 0, len |-> 0, rw |-> 0, seg |-> "data", n |-> 0, i |-> 0,
     buf |-> FreshBuf, time_now |-> W32(0, 0), rc |-> 0, ret |-> 0,
     nreset |-> 0, tmo |-> 0, flt |-> FALSE, fresh |-> FALSE,
     btfi |-> -1, masked |-> FALSE, waited |-> 0]

\* nothing has happened yet
NoEnv == [booted |-> FALSE, faults |-> 0, txns |-> 0, callers |-> {}]

InitCommon ==
    /\ sys = PowerOnSys
    /\ hw = [b \in Buses |-> PowerOnRegs]
    /\ locks = [b \in Buses |-> [locked |-> FALSE, queue |-> <<>>]]
    /\ th = [t \in Threads |-> IdleThread]
    /\ i2c_bus_error = 0
    /\ i2c_bus_result = 0
    /\ im = IdleMain

\* a thread outside the driver: it has not called yet, or its call returned
Rest == {"idle", "ret"}

mainVars == <<apbclk, sys, im>>
busVars == <<hw, locks, th, i2c_bus_error, i2c_bus_result, now>>

-----------------------------------------------------------------------------
(* i2c_poweron, i2c_poweroff *)

\* SR2 & I2C_SR2_BUSY: the wire is held by this controller or by another
Busy(r) == r.ext \/ r.phase # "idle"

\* i2c_poweron without its test of the bus id
i2c_poweron_Unchecked(dev) ==
    /\ ~env.booted
    /\ im.pc \in {"idle", "done"}
    /\ sys' = [sys EXCEPT !.clk_en = @ \cup {dev}]
    /\ im' = [IdleMain EXCEPT !.pc = "done", !.api = "poweron", !.dev = dev]
    /\ UNCHANGED <<apbclk, env>>
    /\ UNCHANGED busVars

i2c_poweron(dev) ==
    /\ ~env.booted
    /\ im.pc \in {"idle", "done"}
    /\ sys' = IF dev < I2C_NUMOF
              THEN [sys EXCEPT !.clk_en = @ \cup {dev}]
              ELSE sys
    /\ im' = [IdleMain EXCEPT !.pc = "done", !.api = "poweron", !.dev = dev]
    /\ UNCHANGED <<apbclk, env>>
    /\ UNCHANGED busVars

i2c_poweroff(dev) ==
    /\ ~env.booted
    /\ im.pc \in {"idle", "done"}
    /\ dev < I2C_NUMOF => ~Busy(hw[dev])
    /\ sys' = IF dev < I2C_NUMOF
              THEN [sys EXCEPT !.clk_en = @ \ {dev}]
              ELSE sys
    /\ im' = [IdleMain EXCEPT !.pc = "done", !.api = "poweroff", !.dev = dev]
    /\ UNCHANGED <<apbclk, env>>
    /\ UNCHANGED busVars

-----------------------------------------------------------------------------
(* i2c_init_master *)

\* NVIC_SetPriority, NVIC_EnableIRQ, gpio_init and gpio_init_af of both pins
ConfigureLines(s, dev) ==
    [s EXCEPT !.irq_prio[dev] = "I2C_IRQ_PRIO",
              !.irq_en = @ \cup {dev},
              !.gpio[dev] = "af"]

\* entry, up to the switch on the speed
InitMasterEnter(dev, speed) ==
    /\ ~env.booted
    /\ im.pc \in {"idle", "done"}
    /\ IF dev >= I2C_NUMOF
       THEN /\ im' = [IdleMain EXCEPT !.pc = "done", !.api = "init_master",
                                      !.dev = dev, !.speed = speed, !.ret = -1]
            /\ UNCHANGED <<sys, hw>>
       ELSE /\ sys' = ConfigureLines([sys EXCEPT !.clk_en = @ \cup {dev}], dev)
            /\ hw' = [hw EXCEPT ![dev] = InitDisable(@)]
            /\ im' = IF SpeedKnown(speed)
                     THEN [IdleMain EXCEPT !.pc = "calc", !.api = "init_master",
                                           !.dev = dev, !.speed = speed]
                     ELSE [IdleMain EXCEPT !.pc = "done", !.api = "init_master",
                                           !.dev = dev, !.speed = speed,
                                           !.ret = -2]
    /\ UNCHANGED <<apbclk, locks, th, i2c_bus_error, i2c_bus_result, now, env>>

\* the do-while loop without the test of presc that follows it
InitMasterLoop_NoExhaustTest ==
    /\ im.pc = "calc"
    /\ IF OutOfRange(apbclk, im.speed, im.presc)
       THEN im' = IF im.presc + 1 < 16
                  THEN [im EXCEPT !.presc = @ + 1]
                  ELSE [im EXCEPT !.presc = @ + 1, !.pc = "init1"]
       ELSE im' = [im EXCEPT !.timing = TimingValue(apbclk, im.speed, im.presc),
                             !.pc = "init1"]
    /\ UNCHANGED <<apbclk, sys, env>>
    /\ UNCHANGED busVars

\* one pass of the do-while loop, and the test that follows the loop
InitMasterLoop ==
    /\ im.pc = "calc"
    /\ IF OutOfRange(apbclk, im.speed, im.presc)
       THEN im' = IF im.presc + 1 < 16
                  THEN [im EXCEPT !.presc = @ + 1]
                  ELSE [im EXCEPT !.presc = @ + 1, !.pc = "done", !.ret = 2]
       ELSE im' = [im EXCEPT !.timing = TimingValue(apbclk, im.speed, im.presc),
                             !.pc = "init1"]
    /\ UNCHANGED <<apbclk, sys, env>>
    /\ UNCHANGED busVars

\* _i2c_init(i2c, timing), statement by statement, then return 0
InitMasterConfigure ==
    /\ im.pc \in {"init1", "init2", "init3", "init4"}
    /\ hw' = [hw EXCEPT ![im.dev] =
                CASE im.pc = "init1" -> InitDisable(@)
                  [] im.pc = "init2" -> InitFilter(@)
                  [] im.pc = "init3" -> InitTiming(@, im.timing)
                  [] im.pc = "init4" -> InitEnable(@)]
    /\ im' = CASE im.pc = "init1" -> [im EXCEPT !.pc = "init2"]
               [] im.pc = "init2" -> [im EXCEPT !.pc = "init3"]
               [] im.pc = "init3" -> [im EXCEPT !.pc = "init4"]
               [] im.pc = "init4" -> [im EXCEPT !.pc = "done", !.ret = 0]
    /\ UNCHANGED <<apbclk, sys, locks, th, i2c_bus_error, i2c_bus_result,
                   now, env>>

i2c_init_master ==
    \/ \E dev \in DevIds, speed \in Speeds : InitMasterEnter(dev, speed)
    \/ InitMasterLoop
    \/ InitMasterConfigure

-----------------------------------------------------------------------------
(* The controller's side of the register accesses of the transaction path *)

Readable(r) == "RXNE" \in r.SR1

\* the controller drops what it was doing: the edge of I2C_CR1_SWRST
HwReset(r) ==
    [r EXCEPT !.SR1 = {}, !.ISR = {}, !.phase = "idle", !.txn = NoThread,
              !.dr = NoByte, !.sh = NoByte, !.cnt = 0, !.stopreq = FALSE,
              !.txdr = NoByte, !.sent = 0]

\* i2c->CR1 |= I2C_CR1_START, by thread t
SetStart(r, t) == [r EXCEPT !.CR1 = @ \cup {"START"}, !.phase = "start"]

\* i2c->DR = (address << 1) | rw_flag, after the start condition: bit 0 of
\* the shifted address is 0, so the OR adds the flag
WriteAddress(r, t, address, rw_flag) ==
    [r EXCEPT !.abyte = ((address * 2) % 256) + rw_flag,
              !.SR1 = @ \ {"SB"},
              !.txn = t,
              !.phase = IF @ = "sb" THEN "addr" ELSE @]

\* _clear_addr: i2c->SR1; i2c->SR2;  The data phase of an acknowledged
\* address begins, in the direction the address byte gave.
_clear_addr(r) ==
    IF r.phase = "acked"
    THEN [r EXCEPT !.SR1 = @ \ {"ADDR"},
                   !.phase = IF r.abyte % 2 = 1 THEN "rx" ELSE "tx",
                   !.ISR = IF r.abyte % 2 = 1 THEN @ ELSE @ \cup {"TXE"}]
    ELSE r

\* the value a read of i2c->DR returns
DataRead(r) == r.dr

\* the register block after a read of i2c->DR: the byte waiting in the
\* shift register, if any, moves up
AfterRead(r) ==
    IF r.sh # NoByte
    THEN [r EXCEPT !.dr = r.sh, !.sh = NoByte, !.SR1 = @ \ {"BTF"}]
    ELSE [r EXCEPT !.dr = NoByte, !.SR1 = @ \ {"RXNE", "BTF"}]

\* i2c->CR1 |= I2C_CR1_STOP.  A receiver that is holding the clock (both
\* registers full) stops at once; otherwise it stops after the byte on the
\* wire.
SetStopCR1(r) ==
    [r EXCEPT !.CR1 = @ \cup {"STOP"},
              !.phase = IF @ = "rx" /\ "BTF" \in r.SR1 THEN "rxend" ELSE @,
              !.stopreq = (r.phase = "rx" /\ "BTF" \notin r.SR1)]

\* i2c->CR2 |= I2C_CR2_STOP
SetStopCR2(r) ==
    [r EXCEPT !.CR2 = @ \cup {"STOP"},
              !.phase = IF @ = "tx" THEN "txend" ELSE @]

\* i2c->TXDR = byte, and i2c->DR = byte in the data phase of a write
WriteData(r, byte) ==
    [r EXCEPT !.txdr = byte, !.ISR = @ \ {"TXE", "TC"}]

-----------------------------------------------------------------------------
(* _i2c_reset and _i2c_irq *)

\* uint16_t ccr = i2c->CCR; SWRST set, then cleared; _i2c_init(i2c, ccr)
_i2c_reset(r) ==
    LET ccr == Low16(r.CCR)
        asserted == HwReset([r EXCEPT !.CR1 = @ \cup {"SWRST"}])
        released == [asserted EXCEPT !.CR1 = @ \ {"SWRST"}]
    IN  I2cInit(released, ccr)

RECURSIVE IrqCode_FirstWins(_, _, _)
\* the tests of _i2c_irq as an else-if chain: the first fault bit found
\* decides the code
IrqCode_FirstWins(state, k, code) ==
    IF k > Len(FaultOrder) THEN code
    ELSE IF FaultOrder[k] \in state THEN 0 - k
         ELSE IrqCode_FirstWins(state, k + 1, code)

RECURSIVE IrqCode(_, _, _)
\* the code the tests of _i2c_irq leave in i2c_bus_error, test k onwards
IrqCode(state, k, code) ==
    IF k > Len(FaultOrder) THEN code
    ELSE IrqCode(state, k + 1, IF FaultOrder[k] \in state THEN 0 - k ELSE code)

\* i2c->ISR after _i2c_irq: it writes back only NACKF and ARLO
IrqStatus(isr) == isr \ {"NACKF", "ARLO"}

-----------------------------------------------------------------------------
(* The mutex table: i2c_acquire, i2c_release *)

I2C_FLAG_WRITE == 0
I2C_FLAG_READ == 1

\* the 7-bit address the callers pass (0x1D)
PeerAddress == 29

\* what a call leaves behind in the record of its thread when it returns
Returned(c, value) ==
    [c EXCEPT !.pc = "ret", !.ret = value, !.fn = "none", !.rw = 0,
              !.seg = "data", !.n = 0, !.i = 0, !.time_now = W32(0, 0)]

\* the record of a thread that enters a public function
Entered(c, api, dev, len) ==
    [IdleThread EXCEPT !.held = c.held, !.api = api, !.dev = dev, !.len = len]

\* mutex_lock(m) by t: t takes a free mutex, or joins its queue of waiters
mutex_lock(m, t) ==
    IF m.locked THEN [m EXCEPT !.queue = Append(@, t)]
    ELSE [m EXCEPT !.locked = TRUE]

\* mutex_unlock(m): the first waiter, if any, becomes the owner
mutex_unlock(m) ==
    IF m.queue = <<>> THEN [m EXCEPT !.locked = FALSE]
    ELSE [m EXCEPT !.queue = Tail(@)]

\* i2c_acquire that returns 0 whether or not the mutex was free
i2c_acquire_NoWait(t, dev) ==
    /\ env.booted
    /\ t \in env.callers
    /\ th[t].pc \in Rest
    /\ th[t].held = NoBus
    /\ dev < I2C_NUMOF
    /\ locks' = [locks EXCEPT ![dev].locked = TRUE]
    /\ th' = [th EXCEPT ![t] =
                Returned([Entered(@, "acquire", dev, 0) EXCEPT !.held = dev], 0)]
    /\ UNCHANGED <<hw, i2c_bus_error, i2c_bus_result, now, env>>
    /\ UNCHANGED mainVars

\* if (dev >= I2C_NUMOF) return -1; mutex_lock(&locks[dev]); return 0;
i2c_acquire(t, dev) ==
    /\ env.booted
    /\ t \in env.callers
    /\ th[t].pc \in Rest
    /\ th[t].held = NoBus
    /\ IF dev >= I2C_NUMOF
       THEN /\ th' = [th EXCEPT ![t] = Returned(Entered(@, "acquire", dev, 0), -1)]
            /\ UNCHANGED locks
       ELSE /\ locks' = [locks EXCEPT ![dev] = mutex_lock(@, t)]
            /\ th' = [th EXCEPT ![t] =
                        IF locks[dev].locked
                        THEN [Entered(@, "acquire", dev, 0) EXCEPT !.pc = "blocked"]
                        ELSE Returned([Entered(@, "acquire", dev, 0)
                                          EXCEPT !.held = dev], 0)]
    /\ UNCHANGED <<hw, i2c_bus_error, i2c_bus_result, now, env>>
    /\ UNCHANGED mainVars

\* if (dev >= I2C_NUMOF) return -1; mutex_unlock(&locks[dev]); return 0;
\* The waiter that becomes the owner returns from its i2c_acquire.
i2c_release(t, dev) ==
    /\ env.booted
    /\ t \in env.callers
    /\ th[t].pc \in Rest
    /\ dev < I2C_NUMOF => th[t].held = dev
    /\ IF dev >= I2C_NUMOF
       THEN /\ th' = [th EXCEPT ![t] = Returned(Entered(@, "release", dev, 0), -1)]
            /\ UNCHANGED locks
       ELSE /\ locks' = [locks EXCEPT ![dev] = mutex_unlock(@)]
            /\ th' = [u \in Threads |->
                        IF u = t
                        THEN Returned([Entered(th[u], "release", dev, 0)
                                          EXCEPT !.held = NoBus], 0)
                        ELSE IF locks[dev].queue # <<>> /\ u = Head(locks[dev].queue)
                        THEN Returned([th[u] EXCEPT !.held = dev], 0)
                        ELSE th[u]]
    /\ UNCHANGED <<hw, i2c_bus_error, i2c_bus_result, now, env>>
    /\ UNCHANGED mainVars

-----------------------------------------------------------------------------
(* _start *)

\* the frame of a step of the transaction path that touches th and hw only
BusStep ==
    /\ UNCHANGED <<locks, i2c_bus_error, i2c_bus_result, now, env>>
    /\ UNCHANGED mainVars

\* while (i2c->SR2 & I2C_SR2_BUSY): leave the loop, or reset the bus when
\* more than 100 ms have passed since time_now
StartBusy(t) ==
    LET c == th[t]
        r == hw[c.dev]
    IN  /\ c.pc = "st_busy"
        /\ \/ /\ ~Busy(r)
              /\ th' = [th EXCEPT ![t].pc = "st_start"]
              /\ UNCHANGED hw
           \/ /\ Busy(r)
              /\ GtTime(Sub32(now, c.time_now), BUSY_TIMEOUT_US)
              /\ c.nreset < MaxResets
              /\ hw' = [hw EXCEPT ![c.dev] = _i2c_reset(r)]
              /\ th' = [th EXCEPT ![t].nreset = @ + 1, ![t].tmo = @ + 1]
        /\ BusStep

\* i2c->CR1 |= I2C_CR1_START
StartGenerate(t) ==
    LET c == th[t]
    IN  /\ c.pc = "st_start"
        /\ hw' = [hw EXCEPT ![c.dev] = SetStart(@, t)]
        /\ th' = [th EXCEPT ![t].pc = "st_sb"]
        /\ BusStep

\* a wait for SB that goes on looking after SB has come
StartSent_NoExit(t) ==
    LET c == th[t]
    IN  /\ c.pc = "st_sb"
        /\ "SB" \in hw[c.dev].SR1
        /\ UNCHANGED <<th, hw>>
        /\ BusStep

\* while (!(i2c->SR1 & I2C_SR1_SB))
StartSent(t) ==
    LET c == th[t]
    IN  /\ c.pc = "st_sb"
        /\ "SB" \in hw[c.dev].SR1
        /\ th' = [th EXCEPT ![t].pc = "st_clr"]
        /\ UNCHANGED hw
        /\ BusStep

\* _start without the statement that clears the fault code
StartClearError_Keeps(t) ==
    /\ th[t].pc = "st_clr"
    /\ UNCHANGED i2c_bus_error
    /\ th' = [th EXCEPT ![t].pc = "st_addr", ![t].fresh = FALSE]
    /\ UNCHANGED <<hw, locks, i2c_bus_result, now, env>>
    /\ UNCHANGED mainVars

\* i2c_bus_error = 0
StartClearError(t) ==
    /\ th[t].pc = "st_clr"
    /\ i2c_bus_error' = 0
    /\ th' = [th EXCEPT ![t].pc = "st_addr", ![t].fresh = FALSE]
    /\ UNCHANGED <<hw, locks, i2c_bus_result, now, env>>
    /\ UNCHANGED mainVars

\* i2c->DR = (address << 1) | rw_flag
StartAddress(t) ==
    LET c == th[t]
    IN  /\ c.pc = "st_addr"
        /\ hw' = [hw EXCEPT ![c.dev] = WriteAddress(@, t, PeerAddress, c.rw)]
        /\ th' = [th EXCEPT ![t].pc = "st_wait"]
        /\ BusStep

\* while (!(i2c->SR1 & I2C_SR1_ADDR)) { if (i2c_bus_error) { reset; return -1; } }
\* return 0;
StartWait(t) ==
    LET c == th[t]
        r == hw[c.dev]
    IN  /\ c.pc = "st_wait"
        /\ IF "ADDR" \in r.SR1
           THEN /\ th' = [th EXCEPT ![t].rc = 0, ![t].pc = "st_ret"]
                /\ UNCHANGED hw
           ELSE /\ i2c_bus_error # 0
                /\ hw' = [hw EXCEPT ![c.dev] = _i2c_reset(r)]
                /\ th' = [th EXCEPT ![t].rc = -1, ![t].pc = "st_ret",
                                    ![t].nreset = @ + 1]
        /\ BusStep

_start(t) ==
    \/ StartBusy(t)
    \/ StartGenerate(t)
    \/ StartSent(t)
    \/ StartClearError(t)
    \/ StartAddress(t)
    \/ StartWait(t)

-----------------------------------------------------------------------------
(* What every read and write function does with the result of _start *)

\* i2c_bus_result = _start(...)
StoreResult(t) ==
    /\ th[t].pc = "st_ret"
    /\ i2c_bus_result' = th[t].rc
    /\ th' = [th EXCEPT ![t].pc = "chk"]
    /\ UNCHANGED <<hw, locks, i2c_bus_error, now, env>>
    /\ UNCHANGED mainVars

\* where the function goes on after a start that it takes for a success
Body(c) ==
    CASE c.fn = "read_bytes" ->
             IF c.len = 1 THEN "r1_ack" ELSE IF c.len = 2 THEN "r2_pos" ELSE "rn_clr"
      [] c.fn = "read_regs" -> "rr_reg"
      [] c.fn \in {"write_bytes", "write_regs"} -> "w_clr"

\* if (i2c_bus_result < 0)
TestResult(t) ==
    /\ th[t].pc = "chk"
    /\ th' = [th EXCEPT ![t].pc = IF i2c_bus_result < 0 THEN "fail" ELSE Body(th[t])]
    /\ UNCHANGED hw
    /\ BusStep

\* a failure return that gives up the mutex of the bus
ReturnResult_Unlocking(t) ==
    /\ th[t].pc = "fail"
    /\ th' = [th EXCEPT ![t] = Returned([@ EXCEPT !.held = NoBus], i2c_bus_result)]
    /\ locks' = [locks EXCEPT ![th[t].dev] = mutex_unlock(@)]
    /\ UNCHANGED <<hw, i2c_bus_error, i2c_bus_result, now, env>>
    /\ UNCHANGED mainVars

\* return i2c_bus_result
ReturnResult(t) ==
    /\ th[t].pc = "fail"
    /\ th' = [th EXCEPT ![t] = Returned(@, i2c_bus_result)]
    /\ UNCHANGED hw
    /\ BusStep

-----------------------------------------------------------------------------
(* i2c_read_bytes *)

\* a caller that enters a transaction function without the mutex of the bus
MayCall_Unlocked(t, dev) ==
    /\ env.booted
    /\ t \in env.callers
    /\ th[t].pc \in Rest

\* a caller may enter a transaction function: it is outside the driver, and
\* it holds the mutex of the bus it names
MayCall(t, dev) ==
    /\ env.booted
    /\ t \in env.callers
    /\ th[t].pc \in Rest
    /\ dev < I2C_NUMOF => th[t].held = dev

\* the transactions the callers start before any of them has to try again
TxnBudget == MaxTxn * Cardinality(env.callers)

\* the call t has returned from was given up in the address wait of _start:
\* a fault was recorded, the bus was reset, the status is negative
Aborted(t) ==
    /\ th[t].pc = "ret"
    /\ th[t].fn = "none"
    /\ th[t].dev \in Buses
    /\ th[t].flt
    /\ th[t].nreset > 0
    /\ th[t].rc < 0
    /\ th[t].ret < 0

\* entry of a transaction function, up to its call of _start.  A caller
\* whose call was given up after a fault tries once more on the same bus.
Call(t, api, dev, len, rw_flag) ==
    /\ MayCall(t, dev)
    /\ IF dev >= I2C_NUMOF
       THEN /\ th' = [th EXCEPT ![t] = Returned(Entered(@, api, dev, len), -1)]
            /\ UNCHANGED env
       ELSE /\ \/ env.txns < TxnBudget
               \/ env.txns = TxnBudget /\ Aborted(t) /\ dev = th[t].dev
            /\ env' = [env EXCEPT !.txns = @ + 1]
            /\ th' = [th EXCEPT ![t] =
                        [Entered(@, api, dev, len) EXCEPT
                            !.pc = "st_busy", !.fn = api, !.rw = rw_flag,
                            !.time_now = now,
                            !.seg = IF api = "write_regs" THEN "reg" ELSE "data",
                            !.n = IF api = "write_regs" THEN 1 ELSE len]]
    /\ UNCHANGED <<hw, locks, i2c_bus_error, i2c_bus_result, now>>
    /\ UNCHANGED mainVars

\* a step that reads i2c->DR into the next place of the caller's buffer
Fetch(t, r2, nextpc) ==
    LET c == th[t]
    IN  /\ hw' = [hw EXCEPT ![c.dev] = r2]
        /\ th' = [th EXCEPT ![t].buf[c.i] = DataRead(hw[c.dev]),
                            ![t].i = c.i + 1,
                            ![t].pc = nextpc]
        /\ BusStep

\* case 1 without the statement that clears ACK
Read1Ack_KeepsAck(t) ==
    LET c == th[t]
    IN  /\ c.pc = "r1_ack"
        /\ th' = [th EXCEPT ![t].pc = "r1_crit"]
        /\ UNCHANGED hw
        /\ BusStep

\* case 1: i2c->CR1 &= ~(I2C_CR1_ACK)
Read1Ack(t) ==
    LET c == th[t]
    IN  /\ c.pc = "r1_ack"
        /\ hw' = [hw EXCEPT ![c.dev].CR1 = @ \ {"ACK"}]
        /\ th' = [th EXCEPT ![t].pc = "r1_crit"]
        /\ BusStep

\* irq_restore(state): the interrupt mask is what the matching irq_disable
\* found
irq_restore(state) == state

\* case 1, with the critical section left open: no irq_restore
Read1Crit_NoRestore(t) ==
    LET c == th[t]
    IN  /\ c.pc = "r1_crit"
        /\ hw' = [hw EXCEPT ![c.dev] = SetStopCR1(_clear_addr(@))]
        /\ th' = [th EXCEPT ![t].pc = "r1_rxne", ![t].masked = TRUE]
        /\ BusStep

\* case 1: state = irq_disable(); _clear_addr; i2c->CR1 |= I2C_CR1_STOP;
\* irq_restore(state)
Read1Crit(t) ==
    LET c == th[t]
    IN  /\ c.pc = "r1_crit"
        /\ hw' = [hw EXCEPT ![c.dev] = SetStopCR1(_clear_addr(@))]
        /\ th' = [th EXCEPT ![t].pc = "r1_rxne",
                            ![t].masked = irq_restore(c.masked)]
        /\ BusStep

\* case 1: while (!RXNE); *my_data = i2c->DR
Read1Data(t) ==
    LET c == th[t]
    IN  /\ c.pc = "r1_rxne"
        /\ Readable(hw[c.dev])
        /\ Fetch(t, AfterRead(hw[c.dev]), "r1_stop")

\* case 1: while (CR1 & STOP); i2c->CR1 |= I2C_CR1_ACK; return length
Read1Done(t) ==
    LET c == th[t]
    IN  /\ c.pc = "r1_stop"
        /\ "STOP" \notin hw[c.dev].CR1
        /\ hw' = [hw EXCEPT ![c.dev].CR1 = @ \cup {"ACK"}]
        /\ th' = [th EXCEPT ![t] = Returned(@, c.len)]
        /\ BusStep

\* case 2: i2c->CR1 |= (I2C_CR1_POS | I2C_CR1_ACK)
Read2Pos(t) ==
    LET c == th[t]
    IN  /\ c.pc = "r2_pos"
        /\ hw' = [hw EXCEPT ![c.dev].CR1 = @ \cup {"POS", "ACK"}]
        /\ th' = [th EXCEPT ![t].pc = "r2_crit"]
        /\ BusStep

\* case 2, interrupts disabled: _clear_addr; i2c->CR1 &= ~(I2C_CR1_ACK)
Read2Crit(t) ==
    LET c == th[t]
    IN  /\ c.pc = "r2_crit"
        /\ hw' = [hw EXCEPT ![c.dev] =
                    [_clear_addr(@) EXCEPT !.CR1 = @ \ {"ACK"}]]
        /\ th' = [th EXCEPT ![t].pc = "r2_btf",
                            ![t].masked = irq_restore(c.masked)]
        /\ BusStep

\* case 2 without the wait for BTF
Read2Btf_NoWait(t) ==
    LET c == th[t]
    IN  /\ c.pc = "r2_btf"
        /\ hw' = [hw EXCEPT ![c.dev] = AfterRead(SetStopCR1(@))]
        /\ th' = [th EXCEPT ![t].buf[0] = DataRead(hw[c.dev]),
                            ![t].i = 1, ![t].btfi = 0, ![t].pc = "r2_rd"]
        /\ BusStep

\* case 2: while (!BTF); interrupts disabled: STOP, my_data[0] = i2c->DR
Read2Btf(t) ==
    LET c == th[t]
    IN  /\ c.pc = "r2_btf"
        /\ "BTF" \in hw[c.dev].SR1
        /\ hw' = [hw EXCEPT ![c.dev] = AfterRead(SetStopCR1(@))]
        /\ th' = [th EXCEPT ![t].buf[0] = DataRead(hw[c.dev]),
                            ![t].i = 1, ![t].btfi = 0, ![t].pc = "r2_rd",
                            ![t].masked = irq_restore(c.masked)]
        /\ BusStep

\* case 2: my_data[1] = i2c->DR
Read2Next(t) ==
    /\ th[t].pc = "r2_rd"
    /\ Fetch(t, AfterRead(hw[th[t].dev]), "r2_stop")

\* case 2: while (CR1 & STOP); CR1 &= ~POS; CR1 |= ACK; return length
Read2Done(t) ==
    LET c == th[t]
    IN  /\ c.pc = "r2_stop"
        /\ "STOP" \notin hw[c.dev].CR1
        /\ hw' = [hw EXCEPT ![c.dev].CR1 = (@ \ {"POS"}) \cup {"ACK"}]
        /\ th' = [th EXCEPT ![t] = Returned(@, c.len)]
        /\ BusStep

\* default: _clear_addr(i2c)
ReadNClear(t) ==
    LET c == th[t]
    IN  /\ c.pc = "rn_clr"
        /\ hw' = [hw EXCEPT ![c.dev] = _clear_addr(@)]
        /\ th' = [th EXCEPT ![t].pc = "rn_loop"]
        /\ BusStep

\* the loop of the default path without its wait for RXNE
ReadNStream_NoWait(t) ==
    LET c == th[t]
    IN  /\ c.pc = "rn_loop"
        /\ c.i < c.len - 3
        /\ Fetch(t, AfterRead(hw[c.dev]), "rn_loop")

\* default: while (i < (length - 3)) { while (!RXNE); my_data[i++] = i2c->DR; }
ReadNStream(t) ==
    LET c == th[t]
    IN  /\ c.pc = "rn_loop"
        /\ c.i < c.len - 3
        /\ Readable(hw[c.dev])
        /\ Fetch(t, AfterRead(hw[c.dev]), "rn_loop")

\* default: while (!BTF); i2c->CR1 &= ~(I2C_CR1_ACK)
ReadNBtf(t) ==
    LET c == th[t]
    IN  /\ c.pc = "rn_loop"
        /\ ~(c.i < c.len - 3)
        /\ "BTF" \in hw[c.dev].SR1
        /\ hw' = [hw EXCEPT ![c.dev].CR1 = @ \ {"ACK"}]
        /\ th' = [th EXCEPT ![t].btfi = c.i, ![t].pc = "rn_crit"]
        /\ BusStep

\* default, interrupts disabled: my_data[i++] = i2c->DR; CR1 |= STOP; the
\* irq_restore leaves the mask as irq_disable found it
ReadNCrit(t) ==
    /\ th[t].pc = "rn_crit"
    /\ Fetch(t, SetStopCR1(AfterRead(hw[th[t].dev])), "rn_rd")

\* default: my_data[i++] = i2c->DR
ReadNNext(t) ==
    /\ th[t].pc = "rn_rd"
    /\ Fetch(t, AfterRead(hw[th[t].dev]), "rn_last")

\* default: while (!RXNE); my_data[i++] = i2c->DR
ReadNLast(t) ==
    /\ th[t].pc = "rn_last"
    /\ Readable(hw[th[t].dev])
    /\ Fetch(t, AfterRead(hw[th[t].dev]), "rn_stop")

\* default: while (CR1 & STOP); CR1 &= ~POS; CR1 |= ACK; return length
ReadNDone(t) ==
    LET c == th[t]
    IN  /\ c.pc = "rn_stop"
        /\ "STOP" \notin hw[c.dev].CR1
        /\ hw' = [hw EXCEPT ![c.dev].CR1 = (@ \ {"POS"}) \cup {"ACK"}]
        /\ th' = [th EXCEPT ![t] = Returned(@, c.len)]
        /\ BusStep

i2c_read_bytes(t, dev, length) == Call(t, "read_bytes", dev, length, I2C_FLAG_READ)

i2c_read_byte(t, dev) == i2c_read_bytes(t, dev, 1)

ReadSteps(t) ==
    \/ Read1Ack(t) \/ Read1Crit(t) \/ Read1Data(t) \/ Read1Done(t)
    \/ Read2Pos(t) \/ Read2Crit(t) \/ Read2Btf(t) \/ Read2Next(t)
    \/ Read2Done(t)
    \/ ReadNClear(t) \/ ReadNStream(t) \/ ReadNBtf(t) \/ ReadNCrit(t)
    \/ ReadNNext(t) \/ ReadNLast(t) \/ ReadNDone(t)

-----------------------------------------------------------------------------
(* i2c_read_regs, i2c_write_bytes, i2c_write_regs, _write, _stop *)

\* the data bytes a caller passes are tagged with the caller, the argument
\* they belong to and their position in it
Out(t, seg, k) == <<t, seg, k>>

\* i2c_read_regs: _clear_addr(i2c); i2c->DR = reg
RegPointer(t) ==
    LET c == th[t]
    IN  /\ c.pc = "rr_reg"
        /\ hw' = [hw EXCEPT ![c.dev] = WriteData(_clear_addr(@), Out(t, "reg", 0))]
        /\ th' = [th EXCEPT ![t].pc = "stop_tc"]
        /\ BusStep

\* i2c_write_bytes, i2c_write_regs: _clear_addr(i2c)
WriteClear(t) ==
    LET c == th[t]
    IN  /\ c.pc = "w_clr"
        /\ hw' = [hw EXCEPT ![c.dev] = _clear_addr(@)]
        /\ th' = [th EXCEPT ![t].pc = "w_put"]
        /\ BusStep

\* _write: the loop test, and i2c->TXDR = data[i].  When the loop of
\* _write(i2c, &reg, 1) ends, _write(i2c, data, length) begins.
WritePut(t) ==
    LET c == th[t]
    IN  /\ c.pc = "w_put"
        /\ IF c.i < c.n
           THEN /\ hw' = [hw EXCEPT ![c.dev] = WriteData(@, Out(t, c.seg, c.i))]
                /\ th' = [th EXCEPT ![t].pc = "w_txe"]
           ELSE /\ UNCHANGED hw
                /\ th' = IF c.seg = "reg"
                         THEN [th EXCEPT ![t].seg = "data", ![t].n = c.len,
                                         ![t].i = 0]
                         ELSE [th EXCEPT ![t].pc = "stop_tc"]
        /\ BusStep

\* the loop of _write without its wait for TXE
WriteWait_NoWait(t) ==
    LET c == th[t]
    IN  /\ c.pc = "w_txe"
        /\ th' = [th EXCEPT ![t].i = c.i + 1, ![t].pc = "w_put"]
        /\ UNCHANGED hw
        /\ BusStep

\* _write: while (!(i2c->ISR & I2C_ISR_TXE)); i++
WriteWait(t) ==
    LET c == th[t]
    IN  /\ c.pc = "w_txe"
        /\ "TXE" \in hw[c.dev].ISR
        /\ th' = [th EXCEPT ![t].i = c.i + 1, ![t].pc = "w_put"]
        /\ UNCHANGED hw
        /\ BusStep

_write(t) == WritePut(t) \/ WriteWait(t)

\* _stop without its wait for TC
_stop_NoWait(t) ==
    LET c == th[t]
    IN  /\ c.pc = "stop_tc"
        /\ hw' = [hw EXCEPT ![c.dev] = SetStopCR2(@)]
        /\ th' = IF c.fn = "read_regs"
                 THEN [th EXCEPT ![t].fn = "read_bytes", ![t].rw = I2C_FLAG_READ,
                                 ![t].i = 0, ![t].time_now = now,
                                 ![t].waited = 0,
                                 ![t].rc = 0, ![t].tmo = 0,
                                 ![t].pc = "st_busy"]
                 ELSE [th EXCEPT ![t] = Returned(@, c.len)]
        /\ BusStep

\* _stop: while (!(i2c->ISR & I2C_ISR_TC)); i2c->CR2 |= I2C_CR2_STOP; then
\* the write functions return length, and i2c_read_regs enters i2c_read_bytes
_stop(t) ==
    LET c == th[t]
    IN  /\ c.pc = "stop_tc"
        /\ "TC" \in hw[c.dev].ISR
        /\ hw' = [hw EXCEPT ![c.dev] = SetStopCR2(@)]
        /\ th' = IF c.fn = "read_regs"
                 THEN [th EXCEPT ![t].fn = "read_bytes", ![t].rw = I2C_FLAG_READ,
                                 ![t].i = 0, ![t].time_now = now,
                                 ![t].waited = 0,
                                 ![t].rc = 0, ![t].tmo = 0,
                                 ![t].pc = "st_busy"]
                 ELSE [th EXCEPT ![t] = Returned(@, c.len)]
        /\ BusStep

i2c_read_regs(t, dev, length) == Call(t, "read_regs", dev, length, I2C_FLAG_WRITE)

i2c_read_reg(t, dev) == i2c_read_regs(t, dev, 1)

i2c_write_bytes(t, dev, length) == Call(t, "write_bytes", dev, length, I2C_FLAG_WRITE)

i2c_write_byte(t, dev) == i2c_write_bytes(t, dev, 1)

i2c_write_regs(t, dev, length) == Call(t, "write_regs", dev, length, I2C_FLAG_WRITE)

i2c_write_reg(t, dev) == i2c_write_regs(t, dev, 1)

\* the steps inside the transaction functions
Transact(t) ==
    \/ _start(t)
    \/ StoreResult(t) \/ TestResult(t) \/ ReturnResult(t)
    \/ ReadSteps(t)
    \/ RegPointer(t) \/ WriteClear(t) \/ _write(t) \/ _stop(t)

-----------------------------------------------------------------------------
(* The environment: the controller, the peer, other masters, the clock *)

EnvStep ==
    /\ UNCHANGED <<locks, th, i2c_bus_error, i2c_bus_result, now, env>>
    /\ UNCHANGED mainVars

\* the start condition is on the wire: SB rises, START falls
HwStart(b) ==
    /\ hw[b].phase = "start"
    /\ hw' = [hw EXCEPT ![b].phase = "sb", ![b].SR1 = @ \cup {"SB"},
                        ![b].CR1 = @ \ {"START"}]
    /\ EnvStep

\* the peer acknowledges its address: ADDR rises
HwAck(b) ==
    /\ hw[b].phase = "addr"
    /\ hw' = [hw EXCEPT ![b].phase = "acked", ![b].SR1 = @ \cup {"ADDR"}]
    /\ EnvStep

\* the peer sends the next byte of the transaction; it goes to the data
\* register, or behind a byte that is still there (BTF, the clock is held)
HwRecv(b) ==
    LET r == hw[b]
        byte == <<r.txn, r.cnt>>
        got == IF r.dr = NoByte
               THEN [r EXCEPT !.dr = byte, !.SR1 = @ \cup {"RXNE"}]
               ELSE [r EXCEPT !.sh = byte, !.SR1 = @ \cup {"BTF"}]
    IN  /\ r.phase = "rx"
        /\ r.sh = NoByte
        /\ hw' = [hw EXCEPT ![b] =
                    [got EXCEPT !.cnt = r.cnt + 1,
                                !.phase = IF r.stopreq THEN "rxend" ELSE "rx",
                                !.stopreq = FALSE]]
        /\ EnvStep

\* the byte in the transmit register goes out, as byte number sent of the
\* transaction: TXE rises
HwSend(b) ==
    /\ hw[b].phase = "tx"
    /\ hw[b].txdr # NoByte
    /\ hw' = [hw EXCEPT ![b].txdr = NoByte, ![b].ISR = @ \cup {"TXE"},
                        ![b].sent = @ + 1]
    /\ EnvStep

\* nothing is left to send: TC rises
HwComplete(b) ==
    /\ hw[b].phase = "tx"
    /\ hw[b].txdr = NoByte
    /\ "TC" \notin hw[b].ISR
    /\ hw' = [hw EXCEPT ![b].ISR = @ \cup {"TC"}]
    /\ EnvStep

\* the stop condition is on the wire: the STOP requests fall, the wire is free
HwStop(b) ==
    /\ hw[b].phase \in {"rxend", "txend"}
    /\ hw' = [hw EXCEPT ![b].phase = "idle", ![b].txn = NoThread,
                        ![b].cnt = 0, ![b].sent = 0, ![b].txdr = NoByte,
                        ![b].CR1 = @ \ {"STOP"}, ![b].CR2 = @ \ {"STOP"},
                        ![b].ISR = @ \ {"TXE", "TC"}]
    /\ EnvStep

\* some thread is in the busy loop of _start on bus b
Waiting(b) == \E t \in Threads : th[t].pc = "st_busy" /\ th[t].dev = b

\* another master takes the idle wire
EnvBusy(b) ==
    /\ Waiting(b)
    /\ ~Busy(hw[b])
    /\ hw' = [hw EXCEPT ![b].ext = TRUE]
    /\ EnvStep

\* the other master lets go of the wire
EnvFree(b) ==
    /\ hw[b].ext
    /\ hw' = [hw EXCEPT ![b].ext = FALSE]
    /\ EnvStep

\* us microseconds pass while a thread finds its bus busy and has not yet
\* seen its 100 ms pass; waited counts, without wrapping, the microseconds
\* since a thread in the busy wait read the timer into time_now
Pass(us) ==
    /\ \E t \in Threads :
          /\ th[t].pc = "st_busy"
          /\ Busy(hw[th[t].dev])
          /\ ~GtTime(Sub32(now, th[t].time_now), BUSY_TIMEOUT_US)
    /\ now' = Add32(now, us)
    /\ th' = [t \in Threads |->
                IF th[t].pc = "st_busy"
                THEN [th[t] EXCEPT !.waited = @ + us]
                ELSE th[t]]
    /\ UNCHANGED <<hw, locks, i2c_bus_error, i2c_bus_result, env>>
    /\ UNCHANGED mainVars

Tick == Pass(TickUs)

\* some thread is between the clearing of i2c_bus_error and the end of the
\* address wait of _start
Polling == \E t \in Threads : th[t].pc \in {"st_addr", "st_wait"}

\* the controller of bus b raises fault bit f and I2C_b_ERR_ISR runs
\* _i2c_irq.  A missing acknowledge is raised for a byte on the wire; it and
\* a lost arbitration end the address phase without ADDR.
_i2c_irq(b, f) ==
    LET state == hw[b].ISR \cup {f}
    IN  /\ env.booted
        /\ env.faults < MaxFaults
        /\ Polling
        /\ f = "NACKF" => hw[b].phase \in {"addr", "tx"}
        /\ b \in sys.irq_en
        /\ i2c_bus_error' = IrqCode(state, 1, i2c_bus_error)
        /\ hw' = [hw EXCEPT ![b].ISR = IrqStatus(state),
                            ![b].phase = IF @ = "addr" /\ f \in {"NACKF", "ARLO"}
                                         THEN "lost" ELSE @]
        /\ th' = [t \in Threads |->
                    [th[t] EXCEPT
                        !.flt = @ \/ (/\ th[t].pc = "st_wait" /\ th[t].dev = b
                                      /\ "ADDR" \notin hw[b].SR1),
                        !.fresh = @ \/ th[t].pc \in {"st_addr", "st_wait"}]]
        /\ env' = [env EXCEPT !.faults = @ + 1]
        /\ UNCHANGED <<locks, i2c_bus_result, now>>
        /\ UNCHANGED mainVars

\* the faults the controller raises: one that _i2c_irq clears and that ends
\* the address phase, and one that it leaves standing
Faults == {"NACKF", "ALERT"}

Controller ==
    \E b \in Buses :
        \/ HwStart(b) \/ HwAck(b) \/ HwRecv(b) \/ HwSend(b)
        \/ HwComplete(b) \/ HwStop(b)

Environment ==
    \/ Controller
    \/ \E b \in Buses : EnvBusy(b) \/ EnvFree(b)
    \/ \E b \in Buses, f \in Faults : _i2c_irq(b, f)
    \/ Tick

-----------------------------------------------------------------------------
(* The program: boot, then one thread that calls every function *)

\* the speed classes the boot code asks for
BootSpeeds == {"LOW", "NORMAL"}

Boot ==
    \/ \E dev \in DevIds, speed \in BootSpeeds : InitMasterEnter(dev, speed)
    \/ InitMasterLoop
    \/ InitMasterConfigure
    \/ \E dev \in DevIds : i2c_poweron(dev)
    \/ \E dev \in DevIds : i2c_poweroff(dev)

\* the boot code is done with every bus, and the threads begin to run
StartThreads ==
    /\ ~env.booted
    /\ im.pc \in {"idle", "done"}
    /\ sys.clk_en = Buses
    /\ \A b \in Buses : "PE" \in hw[b].CR1
    /\ env' = [env EXCEPT !.booted = TRUE]
    /\ im' = IdleMain
    /\ UNCHANGED <<apbclk, sys>>
    /\ UNCHANGED busVars

Lengths == 0 .. MaxLen

Calls(t) ==
    \E dev \in DevIds :
        \/ i2c_acquire(t, dev)
        \/ i2c_release(t, dev)
        \/ i2c_read_byte(t, dev)
        \/ i2c_read_reg(t, dev)
        \/ i2c_write_byte(t, dev)
        \/ i2c_write_reg(t, dev)
        \/ \E length \in Lengths :
              \/ i2c_read_bytes(t, dev, length)
              \/ i2c_read_regs(t, dev, length)
              \/ i2c_write_bytes(t, dev, length)
              \/ i2c_write_regs(t, dev, length)

\* the microsecond counter is one step of the clock away from its
\* wrap-around
ClockStart == W32(Half - 1, Half - TickUs)

InitPowerOn ==
    /\ apbclk = BootClk
    /\ now = ClockStart
    /\ InitCommon

Init ==
    /\ env = [NoEnv EXCEPT !.callers = {"t1"}]
    /\ InitPowerOn

Next ==
    \/ Boot
    \/ StartThreads
    \/ \E t \in Threads : Calls(t)
    \/ \E t \in Threads : Transact(t)
    \/ Environment

Spec == Init /\ [][Next]_vars

-----------------------------------------------------------------------------
(* The program: boot, then two threads that share the buses *)

SharedCalls(t) ==
    \E dev \in Buses :
        \/ i2c_acquire(t, dev)
        \/ i2c_release(t, dev)
        \/ i2c_read_byte(t, dev)
        \/ i2c_read_reg(t, dev)
        \/ i2c_write_byte(t, dev)

SharedSteps(t) ==
    \/ _start(t)
    \/ StoreResult(t) \/ TestResult(t) \/ ReturnResult(t)
    \/ Read1Ack(t) \/ Read1Crit(t) \/ Read1Data(t) \/ Read1Done(t)
    \/ RegPointer(t) \/ WriteClear(t) \/ _write(t) \/ _stop(t)

SharedEnvironment ==
    \/ Controller
    \/ \E b \in Buses, f \in Faults : _i2c_irq(b, f)

InitShared ==
    /\ env = [NoEnv EXCEPT !.callers = Threads]
    /\ InitPowerOn

NextShared ==
    \/ Boot
    \/ StartThreads
    \/ \E t \in Threads : SharedCalls(t)
    \/ \E t \in Threads : SharedSteps(t)
    \/ SharedEnvironment

SpecShared == InitShared /\ [][NextShared]_vars

-----------------------------------------------------------------------------
(* Properties of the transaction path *)

TxnApis == {"read_bytes", "read_regs", "write_bytes", "write_regs"}

\* the thread has returned from a read or write call on a configured bus
TxnReturned(t) ==
    /\ th[t].pc = "ret"
    /\ th[t].api \in TxnApis
    /\ th[t].dev \in Buses

\* the thread is inside a read or write call, past the busy wait of _start
Engaged(t) == th[t].pc \notin {"idle", "ret", "blocked", "st_busy"}

Holders(b) == {t \in Threads : th[t].held = b}

\* C1: on every bus at most one thread is between a returned i2c_acquire and
\* its i2c_release, the mutex is locked exactly while there is such a thread,
\* and a thread whose i2c_acquire has not returned is waiting for a bus that
\* another thread holds.
C1_AtMostOneHolder ==
    \A b \in Buses :
        /\ Cardinality(Holders(b)) <= 1
        /\ locks[b].locked <=> Holders(b) # {}
        /\ \A t \in Threads :
              (th[t].pc = "blocked" /\ th[t].dev = b) =>
                  /\ th[t].held = NoBus
                  /\ \E u \in Threads \ {t} : th[u].held = b

\* one thread is between its acquire and its release, the other is waiting
C1_Witness ==
    \E t \in Threads, u \in Threads :
        /\ t # u
        /\ th[t].pc = "ret" /\ th[t].api = "acquire" /\ th[t].ret = 0
        /\ th[t].held \in Buses
        /\ th[u].pc = "blocked" /\ th[u].dev = th[t].held

\* C2: with every call wrapped in acquire and release, at most one thread is
\* engaged in a transaction on a bus, the transaction the controller of that
\* bus carries is this thread's, and every byte in a caller's buffer was sent
\* by the peer in a transaction of that caller.
C2_TransactionsNotMixed ==
    /\ \A t \in Threads, u \in Threads :
          (Engaged(t) /\ Engaged(u) /\ th[t].dev = th[u].dev) => t = u
    /\ \A t \in Threads :
          Engaged(t) => hw[th[t].dev].txn \in {t, NoThread}
    /\ \A t \in Threads, k \in 0 .. (BufSize - 1) :
          th[t].buf[k] # NoByte => th[t].buf[k][1] = t
    /\ \A b \in Buses :
          hw[b].txdr # NoByte =>
              \E t \in Threads : hw[b].txdr[1] = t /\ Engaged(t) /\ th[t].dev = b

\* a thread has the byte of its read while the other waits for the same bus
C2_Witness ==
    \E t \in Threads, u \in Threads :
        /\ th[t].pc = "r1_stop"
        /\ th[t].buf[0] = <<t, 0>>
        /\ th[u].pc = "blocked" /\ th[u].dev = th[t].dev

\* C3: a call during whose address wait the error ISR of its bus recorded a
\* fault has reset the bus exactly once and returns a negative status.
C3_FaultMeansOneResetAndNegative ==
    \A t \in Threads :
        (TxnReturned(t) /\ th[t].flt) => (th[t].nreset = 1 /\ th[t].ret < 0)

\* C4: the busy loop of one _start call resets the bus at most once, however
\* long the bus stays busy after its 100 ms have passed.
C4_TimeoutResetsOnce ==
    \A t \in Threads : th[t].tmo <= 1

\* C5: a call whose start phase saw the bus busy for more than 100 ms
\* returns a negative status.
C5_TimeoutReturnsNegative ==
    \A t \in Threads :
        (TxnReturned(t) /\ th[t].tmo > 0) => th[t].ret < 0

\* C6: a read of N >= 3 bytes that returns without a negative status returns
\* N, has stored the bytes the peer sent, in the order it sent them, in
\* buf[0 .. N-1] and nowhere else, and took the last three of them after it
\* had seen BTF.
C6_ReadDeliversInOrder ==
    \A t \in Threads :
        (/\ th[t].pc = "ret"
         /\ th[t].api = "read_bytes"
         /\ th[t].dev \in Buses
         /\ th[t].len >= 3
         /\ th[t].ret >= 0) =>
            /\ th[t].ret = th[t].len
            /\ \A k \in 0 .. (BufSize - 1) :
                  th[t].buf[k] = IF k < th[t].len THEN <<t, k>> ELSE NoByte
            /\ th[t].btfi = th[t].len - 3

\* a read of more than three bytes has returned its length
C6_Witness ==
    \E t \in Threads :
        /\ th[t].pc = "ret"
        /\ th[t].api = "read_bytes"
        /\ th[t].len > 3
        /\ th[t].ret = th[t].len
        /\ th[t].buf[th[t].len - 1] = <<t, th[t].len - 1>>

\* C7: a read or write call on a configured bus returns its length when its
\* start phase returned 0, and the status of its start phase when that was
\* negative.
C7_ReturnsLengthOrStartStatus ==
    \A t \in Threads :
        TxnReturned(t) =>
            th[t].ret = IF th[t].rc < 0 THEN th[t].rc ELSE th[t].len

\* the steps that are a call with a bus id that is no configured bus
InvalidIdCall(t) ==
    /\ th'[t] # th[t]
    /\ th'[t].pc = "ret"
    /\ th'[t].dev >= I2C_NUMOF

InvalidIdBootCall ==
    /\ im' # im
    /\ im'.pc = "done"
    /\ im'.dev >= I2C_NUMOF

Untouched == UNCHANGED <<hw, sys, locks, i2c_bus_error>>

\* C8: a call with a bus id that is no configured bus returns -1 (the two
\* power functions return nothing) and changes neither the mutex table, nor
\* a register, nor the clock gates, nor the fault code.
C8_InvalidIdRejected ==
    [][/\ \A t \in Threads :
             InvalidIdCall(t) =>
                 /\ th'[t].ret = -1
                 /\ th'[t].held = th[t].held
                 /\ Untouched
       /\ InvalidIdBootCall =>
             /\ im'.api = "init_master" => im'.ret = -1
             /\ Untouched]_vars

\* a write with a bus id that is no configured bus has returned
C8_Witness ==
    \E t \in Threads :
        /\ th[t].pc = "ret"
        /\ th[t].api = "write_regs"
        /\ th[t].dev >= I2C_NUMOF
        /\ th[t].ret = -1

\* C9: a call whose start phase returned a negative status does not enter
\* the address-clear and data steps, and leaves the caller's buffer as it was.
C9_FailedStartMeansNoTransaction ==
    \A t \in Threads :
        th[t].rc < 0 =>
            /\ th[t].pc \in {"st_ret", "chk", "fail", "ret"}
            /\ th[t].buf = FreshBuf

-----------------------------------------------------------------------------
(* The initializer alone, for every clock and speed class *)

InitAnyClock ==
    /\ apbclk \in Clocks
    /\ now = W32(0, 0)
    /\ env = NoEnv
    /\ InitCommon

NextInit ==
    \/ i2c_init_master
    \/ \E dev \in DevIds : i2c_poweron(dev)
    \/ \E dev \in DevIds : i2c_poweroff(dev)

SpecInit == InitAnyClock /\ [][NextInit]_vars

-----------------------------------------------------------------------------
(* Properties of the initializer *)

\* the four counts of prescaler p fill their register fields: the fields
\* hold sclh - 1 and scll - 1 in 8 bits, sdadel and scldel - 1 in 4 bits
FieldsFit(clk, speed, p) ==
    LET ns == 1000000000 \div (clk \div p)
        h == i2c_h_min_time(speed) \div ns
        l == i2c_l_min_time(speed) \div ns
        d == i2c_hold_time_min(speed) \div ns
        u == i2c_setup_time_min(speed) \div ns
    IN  /\ h >= 1 /\ h - 1 <= 255
        /\ l >= 1 /\ l - 1 <= 255
        /\ d <= 15
        /\ u >= 1 /\ u - 1 <= 15

FittingPrescalers(clk, speed) == {p \in 1 .. 15 : FieldsFit(clk, speed, p)}

Least(S) == CHOOSE x \in S : \A y \in S : x <= y

InitMasterReturned ==
    /\ im.pc = "done"
    /\ im.api = "init_master"
    /\ im.dev \in Buses
    /\ SpeedKnown(im.speed)

\* C10: when some prescaler in 1..15 makes the four tick counts fit their
\* fields, i2c_init_master returns 0 having chosen the least such prescaler p,
\* and the timing register holds p - 1 and the counts of p in its fields; at
\* 8 MHz and normal speed p is 1.
C10_LeastPrescalerChosen ==
    (InitMasterReturned /\ FittingPrescalers(apbclk, im.speed) # {}) =>
        LET p == Least(FittingPrescalers(apbclk, im.speed))
            ns == 1000000000 \div (apbclk \div p)
            T == hw[im.dev].TIMINGR
        IN  /\ im.ret = 0
            /\ im.presc = p
            /\ (apbclk = 8000000 /\ im.speed = "NORMAL") => p = 1
            /\ Field(T, 28, 4) = p - 1
            /\ Field(T, 20, 4) = (i2c_setup_time_min(im.speed) \div ns) - 1
            /\ Field(T, 16, 4) = i2c_hold_time_min(im.speed) \div ns
            /\ Field(T, 8, 8) = (i2c_h_min_time(im.speed) \div ns) - 1
            /\ Field(T, 0, 8) = (i2c_l_min_time(im.speed) \div ns) - 1
            /\ T \subseteq 0 .. 31
            /\ T \cap (24 .. 27) = {}

\* a call that had to step past prescaler 1 has returned success
C10_Witness ==
    /\ InitMasterReturned
    /\ im.ret = 0
    /\ im.presc > 1
    /\ hw[im.dev].TIMINGR = im.timing

\* a step of an i2c_init_master call on a configured bus
InitMasterStep ==
    /\ im' # im
    /\ im'.api = "init_master"
    /\ im'.dev \in Buses

\* C11: when no prescaler in 1..15 makes the four counts fit their fields,
\* i2c_init_master never reaches _i2c_init, no step of it changes the timing
\* register, and it returns the range-exhausted value 2.
C11_ExhaustedKeepsTiming ==
    [][(/\ InitMasterStep
        /\ SpeedKnown(im'.speed)
        /\ FittingPrescalers(apbclk, im'.speed) = {}) =>
           /\ hw'[im'.dev].TIMINGR = hw[im'.dev].TIMINGR
           /\ im'.pc \in {"calc", "done"}
           /\ im'.pc = "done" => (im'.ret = 2 /\ im'.presc = 16)]_vars

\* a bus that holds a timing value from an earlier call has been through a
\* call that found no prescaler
C11_Witness ==
    /\ InitMasterReturned
    /\ FittingPrescalers(apbclk, im.speed) = {}
    /\ im.ret = 2
    /\ hw[im.dev].TIMINGR # {}

\* the step that enters i2c_init_master with the id of a configured bus and
\* a speed class that is neither normal nor fast
BadSpeedCall ==
    /\ im.pc \in {"idle", "done"}
    /\ im'.api = "init_master"
    /\ im'.dev \in Buses
    /\ im'.speed \notin {"NORMAL", "FAST"}

\* C12: i2c_init_master with a valid bus id and a speed class other than
\* normal or fast returns -2, leaves the timing register as it was, and
\* returns with PE clear.
C12_BadSpeedRejected ==
    [][BadSpeedCall =>
           /\ im'.pc = "done"
           /\ im'.ret = -2
           /\ hw'[im'.dev].TIMINGR = hw[im'.dev].TIMINGR
           /\ "PE" \notin hw'[im'.dev].CR1]_vars

\* a bus that an earlier call had configured and enabled has been through a
\* call with an unknown speed class
C12_Witness ==
    /\ im.pc = "done"
    /\ im.api = "init_master"
    /\ im.dev \in Buses
    /\ im.speed \notin {"NORMAL", "FAST"}
    /\ im.ret = -2
    /\ hw[im.dev].TIMINGR # {}
    /\ "PE" \notin hw[im.dev].CR1

\* C13: an i2c_init_master call that fails on its speed class leaves the
\* clock gate, the enable and the priority of the error interrupt and the
\* modes of the two pins as they were before the call.
C13_BadSpeedLeavesNoConfiguration ==
    [][BadSpeedCall => sys' = sys]_vars

\* the i2c_init_master call has returned without success
InitMasterFailed ==
    /\ im.pc = "done"
    /\ im.api = "init_master"
    /\ \/ im.dev \notin Buses
       \/ im.speed \notin {"NORMAL", "FAST"}
       \/ FittingPrescalers(apbclk, im.speed) = {}

\* C14: an i2c_init_master call that fails (bus id, speed class, no
\* prescaler) returns a negative value.
C14_InitFailureIsNegative ==
    InitMasterFailed => im.ret < 0

-----------------------------------------------------------------------------
(* Properties of the read paths *)

\* the thread is inside an i2c_read_bytes call of the given length on a
\* configured bus
Reading(t, length) ==
    /\ th[t].fn = "read_bytes"
    /\ th[t].len = length
    /\ th[t].dev \in Buses
    /\ th[t].pc \notin Rest

\* C15: in a 1-byte read ACK is clear when the step that clears ADDR and
\* sets STOP begins, STOP is set in the same step as ADDR is cleared, the
\* data register is read only after that step, and the peer sends one byte.
C15_OneByteNackBeforeStop ==
    [][\A t \in Threads :
          Reading(t, 1) =>
              LET b == th[t].dev
              IN  /\ (th[t].pc = "r1_crit" /\ th'[t].pc # "r1_crit") =>
                        /\ "ACK" \notin hw[b].CR1
                        /\ "ADDR" \notin hw'[b].SR1
                        /\ "STOP" \in hw'[b].CR1
                        /\ th'[t].buf = FreshBuf
                  /\ ("ADDR" \in hw[b].SR1 /\ "ADDR" \notin hw'[b].SR1) =>
                        th[t].pc = "r1_crit"
                  /\ th'[t].buf # th[t].buf => th[t].pc = "r1_rxne"
                  /\ hw'[b].cnt <= 1]_vars

\* a 1-byte read has its byte, and ACK is still clear
C15_Witness ==
    \E t \in Threads :
        /\ Reading(t, 1)
        /\ th[t].pc = "r1_stop"
        /\ th[t].rc = 0
        /\ th[t].buf[0] = <<t, 0>>
        /\ "ACK" \notin hw[th[t].dev].CR1

\* C16: in a 2-byte read the call sets STOP, and the stop condition begins,
\* only in the step that has seen BTF; POS and ACK are set when ADDR is
\* cleared and ACK is cleared in that step and in no other; both bytes are
\* read once STOP is set, buf[0] first and buf[1] second.
C16_TwoByteStopAfterBtf ==
    [][\A t \in Threads :
          Reading(t, 2) =>
              LET b == th[t].dev
                  stopSet == th[t].pc = "r2_btf" /\ th'[t].pc # "r2_btf"
              IN  /\ stopSet => ("BTF" \in hw[b].SR1 /\ "STOP" \in hw'[b].CR1)
                  /\ (hw'[b].phase = "rxend" /\ hw[b].phase # "rxend") => stopSet
                  /\ ~hw'[b].stopreq
                  /\ (th[t].pc = "r2_crit" /\ th'[t].pc # "r2_crit") =>
                        /\ {"POS", "ACK"} \subseteq hw[b].CR1
                        /\ "ADDR" \notin hw'[b].SR1
                        /\ "ACK" \notin hw'[b].CR1
                  /\ ("ACK" \in hw[b].CR1 /\ "ACK" \notin hw'[b].CR1) =>
                        th[t].pc = "r2_crit"
                  /\ th'[t].buf # th[t].buf =>
                        \/ /\ stopSet
                           /\ th'[t].buf = [FreshBuf EXCEPT ![0] = <<t, 0>>]
                        \/ /\ th[t].pc = "r2_rd"
                           /\ th[t].buf[0] = <<t, 0>>
                           /\ th'[t].buf = [th[t].buf EXCEPT ![1] = <<t, 1>>]]_vars

\* a 2-byte read has both bytes and waits for STOP to fall
C16_Witness ==
    \E t \in Threads :
        /\ Reading(t, 2)
        /\ th[t].pc = "r2_stop"
        /\ th[t].buf[0] = <<t, 0>>
        /\ th[t].buf[1] = <<t, 1>>
        /\ hw[th[t].dev].phase = "rxend"

\* C17: when an i2c_read_bytes call of length >= 1 has returned its length,
\* control register 1 of its bus has ACK set, POS clear and STOP clear.
C17_ReadRestoresControl ==
    \A t \in Threads :
        (/\ th[t].pc = "ret"
         /\ th[t].api = "read_bytes"
         /\ th[t].dev \in Buses
         /\ th[t].len >= 1
         /\ th[t].ret = th[t].len) =>
            /\ "ACK" \in hw[th[t].dev].CR1
            /\ "POS" \notin hw[th[t].dev].CR1
            /\ "STOP" \notin hw[th[t].dev].CR1

-----------------------------------------------------------------------------
(* Properties of the bus reset *)

\* the timing value the boot code has configured on every bus
BootTiming ==
    TimingValue(apbclk, "NORMAL", Least(FittingPrescalers(apbclk, "NORMAL")))

\* the thread is in, or has returned from, the transaction it started on
\* the bus on which a fault had its previous call given up
Retried(t) ==
    /\ env.txns > TxnBudget
    /\ th[t].api \in TxnApis
    /\ th[t].dev \in Buses
    /\ th[t].pc # "idle"

\* the peer's bytes 0 .. len-1 are in the buffer of t, and nothing else is
Delivered(t) ==
    \A k \in 0 .. (BufSize - 1) :
        th[t].buf[k] = IF k < th[t].len THEN <<t, k>> ELSE NoByte

\* C18: the transaction that follows a call given up after a fault runs on
\* a controller that is enabled and holds the timing value it was configured
\* with, returns its length, and a read of it delivers the peer's bytes.
C18_RetryAfterFaultWorks ==
    \A t \in Threads :
        Retried(t) =>
            /\ "PE" \in hw[th[t].dev].CR1
            /\ hw[th[t].dev].TIMINGR = BootTiming
            /\ th[t].pc = "st_wait" => i2c_bus_error = 0
            /\ th[t].pc = "ret" =>
                  /\ th[t].ret = th[t].len
                  /\ (th[t].api \in {"read_bytes", "read_regs"} /\ th[t].len >= 1)
                        => Delivered(t)

-----------------------------------------------------------------------------
(* Properties of i2c_read_regs *)

\* C19: in an i2c_read_regs call the address goes out with the write flag in
\* the first phase and with the read flag in the second; the only byte
\* written is the register byte, after the address was acknowledged; STOP
\* ends the first phase once that byte has gone out; the second START comes
\* on an idle wire; bytes are received in the second phase only; a call
\* that returns a non-negative value returns its length after the second
\* STOP with the peer's bytes in the buffer; a call whose start failed in
\* either phase returns that status and leaves the buffer as it was.
C19_ReadRegsSequence ==
    [][\A t \in Threads :
          (th[t].api = "read_regs" /\ th[t].dev \in Buses /\ th[t].pc \notin Rest) =>
              LET b == th[t].dev
                  first == th[t].fn = "read_regs"
              IN  /\ (hw'[b].phase = "addr" /\ hw[b].phase # "addr") =>
                        hw'[b].abyte = (2 * PeerAddress)
                                       + (IF first THEN I2C_FLAG_WRITE ELSE I2C_FLAG_READ)
                  /\ (hw'[b].txdr # hw[b].txdr /\ hw'[b].txdr # NoByte) =>
                        /\ first
                        /\ hw[b].phase = "acked"
                        /\ hw'[b].phase = "tx"
                        /\ hw'[b].txdr = Out(t, "reg", 0)
                  /\ (hw'[b].phase = "txend" /\ hw[b].phase # "txend") =>
                        /\ th[t].pc = "stop_tc"
                        /\ hw[b].txdr = NoByte
                        /\ th'[t].fn = "read_bytes"
                  /\ (first /\ th'[t].fn = "read_bytes") => hw'[b].phase = "txend"
                  /\ (hw'[b].phase = "start" /\ hw[b].phase # "start") =>
                        hw[b].phase = "idle"
                  /\ hw'[b].phase \in {"rx", "rxend"} => ~first
                  /\ th'[t].buf # th[t].buf => ~first
                  /\ th'[t].pc = "ret" =>
                        IF th'[t].ret >= 0
                        THEN /\ th'[t].ret = th[t].len
                             /\ ~first
                             /\ hw'[b].phase = "idle"
                             /\ th[t].len >= 1 =>
                                   \A k \in 0 .. (BufSize - 1) :
                                       th'[t].buf[k] = IF k < th[t].len
                                                       THEN <<t, k>> ELSE NoByte
                        ELSE /\ th'[t].ret = th'[t].rc
                             /\ th'[t].buf = FreshBuf]_vars

-----------------------------------------------------------------------------
(* Properties of the mutex table *)

\* C20: no step of a read or write function and no step of i2c_init_master
\* changes the mutex table, and a thread holds after such a step the mutex
\* it held before it.
C20_PrimitivesLeaveMutexes ==
    [][/\ \A t \in Threads :
             (th'[t] # th[t] /\ th'[t].api \in TxnApis) =>
                 /\ locks' = locks
                 /\ th'[t].held = th[t].held
       /\ (im' # im /\ im'.api = "init_master") => locks' = locks]_vars

\* a call has returned the failure of its start phase, and the mutex of its
\* bus is still locked by the caller
C20_Witness ==
    \E t \in Threads :
        /\ TxnReturned(t)
        /\ th[t].rc < 0
        /\ th[t].ret < 0
        /\ th[t].held = th[t].dev
        /\ locks[th[t].dev].locked

-----------------------------------------------------------------------------
(* The accelerometer drivers lis2hh12 and lis3dh (I2C mode) as clients of
   the mutex table.  A driver function is the list of the steps it takes
   between its entry and its last statement; the transaction behind a bus
   call is left out, the call returns a negative status or none. *)

\* the values of the header are not part of the sources: success is 0, the
\* bus failure is some negative value
LIS2HH12_OK == 0
LIS2HH12_NOBUS == 0 - 1

Lis2hh12Ops == {"lis2dh12_init", "lis2hh12_read_xyz", "lis2hh12_read_temp",
                "lis2hh12_poweron", "lis2hh12_poweroff"}

Lis3dhOps == {"_read", "_write", "lis3dh_init", "lis3dh_read_xyz"}

\* "acquire", "release": i2c_acquire, i2c_release on the bus of the device
\* "call_chk": a bus call; a negative status makes the function return
\* "call": a bus call; the function goes on whatever the status is
\* "who_am_i": the test of the identification byte; a mismatch returns
\* "helper": one of the register helpers of lis3dh_init
Program(op) ==
    CASE op = "lis2dh12_init" ->
             <<"acquire", "call_chk", "who_am_i", "call_chk", "call_chk",
               "call_chk", "call_chk", "release">>
      [] op = "lis2hh12_read_xyz" ->
             <<"acquire", "call_chk", "call_chk", "call_chk", "release">>
      [] op \in {"lis2hh12_read_temp", "lis2hh12_poweron", "lis2hh12_poweroff"} ->
             <<"acquire", "call_chk", "release">>
      [] op \in {"_read", "_write", "lis3dh_read_xyz"} ->
             <<"acquire", "call", "release">>
      [] op = "lis3dh_init" ->
             <<"acquire", "helper", "who_am_i", "helper", "helper", "helper",
               "helper", "helper", "helper", "helper">>

\* the step thread t is about to take inside a driver function
AtStep(t, kind) ==
    /\ th[t].pc = "run"
    /\ th[t].n <= Len(Program(th[t].api))
    /\ Program(th[t].api)[th[t].n] = kind

ClientFrame ==
    /\ UNCHANGED <<hw, i2c_bus_error, i2c_bus_result, now, env>>
    /\ UNCHANGED mainVars

\* a thread enters a driver function for the device on bus dev
ClientEnter(t, op, dev) ==
    /\ env.booted
    /\ t \in env.callers
    /\ th[t].pc \in Rest
    /\ th' = [th EXCEPT ![t] = [IdleThread EXCEPT !.held = th[t].held,
                                                  !.pc = "run", !.api = op,
                                                  !.dev = dev, !.n = 1]]
    /\ UNCHANGED locks
    /\ ClientFrame

\* i2c_acquire(DEV_I2C): mutex_lock, which blocks while the mutex is locked
ClientAcquire(t) ==
    LET c == th[t]
    IN  /\ AtStep(t, "acquire")
        /\ locks' = [locks EXCEPT ![c.dev] = mutex_lock(@, t)]
        /\ th' = [th EXCEPT ![t] =
                    IF locks[c.dev].locked
                    THEN [c EXCEPT !.pc = "blocked", !.n = @ + 1]
                    ELSE [c EXCEPT !.held = c.dev, !.n = @ + 1]]
        /\ ClientFrame

\* i2c_release(DEV_I2C): mutex_unlock; the first waiter becomes the owner
\* and goes on behind its i2c_acquire
ClientRelease(t) ==
    LET c == th[t]
        q == locks[c.dev].queue
    IN  /\ AtStep(t, "release")
        /\ locks' = [locks EXCEPT ![c.dev] = mutex_unlock(@)]
        /\ th' = [u \in Threads |->
                    IF u = t THEN [c EXCEPT !.held = NoBus, !.n = @ + 1]
                    ELSE IF q # <<>> /\ u = Head(q)
                    THEN [th[u] EXCEPT !.held = c.dev, !.pc = "run"]
                    ELSE th[u]]
        /\ ClientFrame

\* a bus call of a driver function.  The lis2hh12 functions return
\* LIS2HH12_NOBUS at once when the status is negative; _read and _write keep
\* the status for their return; lis3dh_read_xyz drops it.
ClientBusCall(t) ==
    LET c == th[t]
    IN  /\ AtStep(t, "call_chk") \/ AtStep(t, "call")
        /\ \E status \in {0 - 1, 0} :
              th' = [th EXCEPT ![t] =
                        IF status < 0 /\ AtStep(t, "call_chk")
                        THEN [c EXCEPT !.pc = "ret", !.rc = status,
                                       !.ret = LIS2HH12_NOBUS]
                        ELSE [c EXCEPT !.rc = status, !.n = @ + 1]]
        /\ UNCHANGED locks
        /\ ClientFrame

\* the test of the identification byte: a mismatch returns LIS2HH12_NOBUS
\* from lis2dh12_init and -1 from lis3dh_init
ClientIdentify(t) ==
    LET c == th[t]
    IN  /\ AtStep(t, "who_am_i")
        /\ \E match \in BOOLEAN :
              th' = [th EXCEPT ![t] =
                        IF match THEN [c EXCEPT !.n = @ + 1]
                        ELSE [c EXCEPT !.pc = "ret",
                                       !.ret = IF c.api = "lis3dh_init"
                                               THEN 0 - 1 ELSE LIS2HH12_NOBUS]]
        /\ UNCHANGED locks
        /\ ClientFrame

\* lis3dh_device_id_get, lis3dh_write_reg, lis3dh_set_scale as lis3dh_init
\* calls them.  The register access below them (lis3dh_read_reg,
\* lis3dh_write_reg in I2C mode) is not part of the sources: it is a bus
\* call of its own, or it goes through _read / _write, whose i2c_acquire
\* finds the mutex that lis3dh_init holds.
ClientHelper(t) ==
    LET c == th[t]
    IN  /\ AtStep(t, "helper")
        /\ \E wrapped \in BOOLEAN :
              IF wrapped /\ locks[c.dev].locked
              THEN /\ locks' = [locks EXCEPT ![c.dev] = mutex_lock(@, t)]
                   /\ th' = [th EXCEPT ![t].pc = "blocked"]
              ELSE /\ UNCHANGED locks
                   /\ th' = [th EXCEPT ![t].n = @ + 1]
        /\ ClientFrame

\* the last statement: _read and _write return the status of their bus
\* call, the other functions return 0
ClientReturn(t) ==
    LET c == th[t]
    IN  /\ c.pc = "run"
        /\ c.n > Len(Program(c.api))
        /\ th' = [th EXCEPT ![t] =
                    [c EXCEPT !.pc = "ret",
                              !.ret = IF c.api \in {"_read", "_write"}
                                      THEN c.rc ELSE LIS2HH12_OK]]
        /\ UNCHANGED locks
        /\ ClientFrame

Client(t) ==
    \/ \E op \in Lis2hh12Ops \cup Lis3dhOps, dev \in Buses : ClientEnter(t, op, dev)
    \/ ClientAcquire(t)
    \/ ClientRelease(t)
    \/ ClientBusCall(t)
    \/ ClientIdentify(t)
    \/ ClientHelper(t)
    \/ ClientReturn(t)

\* both buses as i2c_init_master(b, I2C_SPEED_NORMAL) leaves them
InitConfigured ==
    /\ apbclk = BootClk
    /\ now = ClockStart
    /\ env = [NoEnv EXCEPT !.callers = Threads, !.booted = TRUE]
    /\ sys = [clk_en |-> Buses, irq_en |-> Buses,
              irq_prio |-> [b \in Buses |-> "I2C_IRQ_PRIO"],
              gpio |-> [b \in Buses |-> "af"]]
    /\ hw = [b \in Buses |-> I2cInit(InitDisable(PowerOnRegs), BootTiming)]
    /\ locks = [b \in Buses |-> [locked |-> FALSE, queue |-> <<>>]]
    /\ th = [t \in Threads |-> IdleThread]
    /\ i2c_bus_error = 0
    /\ i2c_bus_result = 0
    /\ im = IdleMain

NextClients == \E t \in Threads : Client(t)

SpecClients == InitConfigured /\ [][NextClients]_vars

\* C21: a thread that has returned from a lis2hh12 function holds no bus
\* mutex, on the success return and on every error return; so no thread
\* waits for a mutex whose owner is outside every driver function.
C21_Lis2hh12ReleasesBus ==
    /\ \A t \in Threads :
          (th[t].pc = "ret" /\ th[t].api \in Lis2hh12Ops) => th[t].held = NoBus
    /\ \A b \in Buses :
          locks[b].locked =>
              \E t \in Threads : th[t].held = b /\ th[t].pc = "run"

\* C22: a thread that has returned from _read, _write, lis3dh_init or
\* lis3dh_read_xyz holds no bus mutex, and a thread inside one of them never
\* waits for a mutex it holds itself.
C22_Lis3dhReleasesBus ==
    \A t \in Threads :
        th[t].api \in Lis3dhOps =>
            /\ th[t].pc = "ret" => th[t].held = NoBus
            /\ ~(th[t].pc = "blocked" /\ th[t].held = th[t].dev)

-----------------------------------------------------------------------------
(* Properties of the critical sections of i2c_read_bytes *)

\* the positions of i2c_read_bytes
ReadPositions ==
    {"r1_ack", "r1_crit", "r1_rxne", "r1_stop",
     "r2_pos", "r2_crit", "r2_btf", "r2_rd", "r2_stop",
     "rn_clr", "rn_loop", "rn_crit", "rn_rd", "rn_last", "rn_stop"}

\* the positions whose register updates lie between state = irq_disable()
\* and irq_restore(state)
IrqDisabledAt == {"r1_crit", "r2_crit", "r2_btf", "rn_crit"}

\* thread t, inside i2c_read_bytes, makes a step that clears ACK or sets
\* STOP in control register 1 of its bus
AckOrStopUpdate(t) ==
    LET c == th[t]
    IN  /\ c.pc \in ReadPositions
        /\ th'[t].pc # c.pc
        /\ \/ "ACK" \in hw[c.dev].CR1 /\ "ACK" \notin hw'[c.dev].CR1
           \/ "STOP" \in hw'[c.dev].CR1 /\ hw'[c.dev].CR1 # hw[c.dev].CR1

\* C23: in the 1-byte, 2-byte and N-byte read paths every update of control
\* register 1 that clears ACK or sets STOP is made between irq_disable and
\* irq_restore.
C23_AckStopUpdatesMasked ==
    [][\A t \in Threads : AckOrStopUpdate(t) => th[t].pc \in IrqDisabledAt]_vars

-----------------------------------------------------------------------------
(* The error interrupt alone: any combination of fault bits *)

\* the controller of bus b sets fault bit f in its status register
RaiseFault(b, f) ==
    /\ f \notin hw[b].ISR
    /\ hw' = [hw EXCEPT ![b].ISR = @ \cup {f}]
    /\ UNCHANGED <<locks, th, i2c_bus_error, i2c_bus_result, now, env>>
    /\ UNCHANGED mainVars

\* I2C_0_ERR_ISR, I2C_1_ERR_ISR: _i2c_irq on the controller of bus b
I2C_ERR_ISR(b) ==
    /\ b \in sys.irq_en
    /\ i2c_bus_error' = IrqCode(hw[b].ISR, 1, i2c_bus_error)
    /\ hw' = [hw EXCEPT ![b].ISR = IrqStatus(@)]
    /\ env' = [env EXCEPT !.faults = 1]
    /\ UNCHANGED <<locks, th, i2c_bus_result, now>>
    /\ UNCHANGED mainVars

NextIsr ==
    \/ \E b \in Buses, f \in FaultBits : RaiseFault(b, f)
    \/ \E b \in Buses : I2C_ERR_ISR(b)

SpecIsr == InitConfigured /\ [][NextIsr]_vars

\* the handler runs on bus b
IsrRuns(b) ==
    /\ i2c_bus_error' = IrqCode(hw[b].ISR, 1, i2c_bus_error)
    /\ hw' = [hw EXCEPT ![b].ISR = IrqStatus(@)]
    /\ env'.faults = 1
    /\ UNCHANGED <<locks, th>>

\* C24: the handler maps overrun to -1, NACK to -2, arbitration lost to -3,
\* bus error to -4, PEC error to -5, timeout to -6 and SMBus alert to -7: with
\* one fault bit set it leaves that bit's code in i2c_bus_error, with several
\* set the code of the one tested last, with none set the old value.
C24_IsrFaultCodes ==
    [][LET code == [f \in FaultBits |->
                      CASE f = "OVR" -> 0 - 1
                        [] f = "NACKF" -> 0 - 2
                        [] f = "ARLO" -> 0 - 3
                        [] f = "BERR" -> 0 - 4
                        [] f = "PECERR" -> 0 - 5
                        [] f = "TIMEOUT" -> 0 - 6
                        [] f = "ALERT" -> 0 - 7]
       IN  \A b \in Buses :
              IsrRuns(b) =>
                  LET set == hw[b].ISR \cap FaultBits
                  IN  /\ set = {} => i2c_bus_error' = i2c_bus_error
                      /\ \A f \in set : set = {f} => i2c_bus_error' = code[f]
                      /\ set # {} =>
                            \E f \in set :
                               /\ i2c_bus_error' = code[f]
                               /\ \A g \in set : code[g] >= code[f]]_vars

C24_Witness ==
    /\ env.faults = 1
    /\ i2c_bus_error = 0 - 6
    /\ \E b \in Buses : hw[b].ISR \cap FaultBits = {"OVR", "BERR", "TIMEOUT"}

-----------------------------------------------------------------------------
(* Properties of _i2c_reset and of the start phase *)

\* thread t makes the step that holds a call of _i2c_reset
ResetStep(t) == th'[t].nreset = th[t].nreset + 1

\* C25: _i2c_reset leaves in the timing register the value it held before
\* the reset, whatever init_master put there, and the controller, reset by
\* the software-reset bit, is enabled again.
C25_ResetKeepsTiming ==
    [][\A t \in Threads :
          ResetStep(t) =>
              /\ hw'[th[t].dev].TIMINGR = hw[th[t].dev].TIMINGR
              /\ hw'[th[t].dev].phase = "idle"
              /\ "PE" \in hw'[th[t].dev].CR1]_vars


\* thread t sets START or writes the address byte
StartOrAddress(t) ==
    \/ th[t].pc = "st_start" /\ th'[t].pc = "st_sb"
    \/ th[t].pc = "st_addr" /\ th'[t].pc = "st_wait"

\* C26: a call of _start that has reset the bus, after the busy timeout or
\* after a fault, neither sets START nor writes the address afterwards.
C26_NoStartAfterReset ==
    [][\A t \in Threads : th[t].nreset > 0 => ~StartOrAddress(t)]_vars

-----------------------------------------------------------------------------
(* Faults at any point of a call *)

\* the positions of a call between the end of the address wait and the
\* statement that sets STOP
BeforeStop ==
    {"st_ret", "chk", "r1_ack", "r1_crit", "r2_pos", "r2_crit", "r2_btf",
     "rn_clr", "rn_loop", "rn_crit", "rr_reg", "w_clr", "w_put", "w_txe",
     "stop_tc"}

\* the controller of bus b raises fault bit f and _i2c_irq runs while no
\* thread is in the address wait: during the busy wait, the wait for SB, or
\* the data phase.  flt records a fault on the bus of a call that is between
\* its address wait and its STOP; fresh records a fault code written since
\* the thread's i2c_bus_error = 0.
FaultAnytime(b, f) ==
    LET state == hw[b].ISR \cup {f}
    IN  /\ env.booted
        /\ env.faults < MaxFaults
        /\ ~Polling
        /\ \E t \in Threads : th[t].pc \notin Rest \cup {"blocked"}
        /\ f = "NACKF" => hw[b].phase = "tx"
        /\ b \in sys.irq_en
        /\ i2c_bus_error' = IrqCode(state, 1, i2c_bus_error)
        /\ hw' = [hw EXCEPT ![b].ISR = IrqStatus(state)]
        /\ th' = [t \in Threads |->
                    [th[t] EXCEPT
                        !.flt = @ \/ (th[t].pc \in BeforeStop /\ th[t].dev = b)]]
        /\ env' = [env EXCEPT !.faults = @ + 1]
        /\ UNCHANGED <<locks, i2c_bus_result, now>>
        /\ UNCHANGED mainVars

NextFaults ==
    \/ Next
    \/ \E b \in Buses, f \in Faults : FaultAnytime(b, f)

SpecFaults == Init /\ [][NextFaults]_vars

\* C27: a call on whose bus the error ISR recorded a fault between START and
\* STOP, the data phase after the acknowledged address included, has reset
\* the bus and returns a negative status.
C27_FaultAbortsTransaction ==
    \A t \in Threads :
        (TxnReturned(t) /\ th[t].flt) => (th[t].nreset > 0 /\ th[t].ret < 0)


\* thread t leaves the address wait by the fault branch: _i2c_reset, return -1
FaultReset(t) == th[t].pc = "st_wait" /\ ResetStep(t)

\* C30: _start sets the fault code to 0 between the wait for SB and the
\* write of the address; in the address wait the code is 0 unless the ISR
\* has run since, and the fault branch is taken only on such a new code: a
\* code left by an earlier transaction, or recorded during the busy wait or
\* the wait for SB, does not fail the call.
C30_StaleFaultIgnored ==
    [][\A t \in Threads :
          /\ (th[t].pc = "st_clr" /\ th'[t].pc = "st_addr") => i2c_bus_error' = 0
          /\ th[t].pc \in {"st_addr", "st_wait"} =>
                 (i2c_bus_error = 0 \/ th[t].fresh)
          /\ FaultReset(t) => th[t].fresh]_vars

\* a fault code was recorded before the clearing, and the call is in its
\* address wait with the code at 0
C30_Witness ==
    \E t \in Threads :
        /\ th[t].pc = "st_wait"
        /\ env.faults > 0
        /\ ~th[t].fresh
        /\ i2c_bus_error = 0

-----------------------------------------------------------------------------
(* Properties of the write paths *)

\* thread t is inside i2c_write_bytes or i2c_write_regs on a configured bus
Writing(t) ==
    /\ th[t].api \in {"write_bytes", "write_regs"}
    /\ th[t].dev \in Buses
    /\ th[t].pc \notin Rest

\* the bytes a write call sends before its data: the register byte
Lead(t) == IF th[t].api = "write_regs" THEN 1 ELSE 0

\* C28: in i2c_write_bytes and i2c_write_regs the address byte follows the
\* start condition and carries the write flag; the data phase begins when
\* the call clears the address flag of an acknowledged address; the bytes
\* that go out are the register byte (write_regs) followed by the data
\* bytes in buffer order, none overwritten before it went out; STOP is set
\* only when all of them have gone out and TC is set.
C28_WriteOrder ==
    [][\A t \in Threads :
          Writing(t) =>
              LET b == th[t].dev
                  r == hw[b]
              IN  /\ (hw'[b].phase = "addr" /\ r.phase # "addr") =>
                        /\ r.phase = "sb"
                        /\ hw'[b].abyte = (2 * PeerAddress) + I2C_FLAG_WRITE
                  /\ (hw'[b].phase = "tx" /\ r.phase # "tx") =>
                        /\ r.phase = "acked"
                        /\ th[t].pc = "w_clr"
                        /\ "ADDR" \notin hw'[b].SR1
                  /\ (hw'[b].txdr # r.txdr /\ hw'[b].txdr # NoByte) =>
                        r.txdr = NoByte
                  /\ (r.phase = "tx" /\ hw'[b].sent = r.sent + 1) =>
                        /\ r.sent < Lead(t) + th[t].len
                        /\ r.txdr = IF r.sent < Lead(t) THEN Out(t, "reg", 0)
                                    ELSE Out(t, "data", r.sent - Lead(t))
                  /\ (hw'[b].phase = "txend" /\ r.phase # "txend") =>
                        /\ r.phase = "tx"
                        /\ r.txdr = NoByte
                        /\ r.sent = Lead(t) + th[t].len
                        /\ "TC" \in r.ISR]_vars

\* i2c_write_regs with two data bytes has returned 2 and the stop condition
\* has been on the wire
C28_Witness ==
    \E t \in Threads :
        /\ th[t].pc = "ret"
        /\ th[t].api = "write_regs"
        /\ th[t].len = 2
        /\ th[t].ret = 2
        /\ th[t].dev \in Buses
        /\ hw[th[t].dev].phase = "idle"


\* the call has passed the TXE wait of _write since it wrote the address:
\* i counts the waits passed in the running _write, and the _write of the
\* data of i2c_write_regs follows the _write of the register byte
PolledTxe(c) == c.i > 0 \/ (c.api = "write_regs" /\ c.seg = "data")

\* C29: _write does not put a byte into the transmit data register, the
\* first byte after the address included, unless it has seen TXE set since
\* the byte before it was written.
C29_TxePolledBeforeEachByte ==
    [][\A t \in Threads :
          (/\ Writing(t)
           /\ th[t].pc = "w_put"
           /\ hw'[th[t].dev].txdr # hw[th[t].dev].txdr
           /\ hw'[th[t].dev].txdr # NoByte) => PolledTxe(th[t])]_vars

-----------------------------------------------------------------------------
(* Properties of the polling loops *)

\* thread t is in a polling loop other than the busy wait of _start, and the
\* flag the loop waits for is not there (for the address wait: nor a fault
\* code)
Awaiting(t) ==
    LET c == th[t]
        r == hw[c.dev]
    IN  \/ c.pc = "st_sb" /\ "SB" \notin r.SR1
        \/ c.pc = "st_wait" /\ "ADDR" \notin r.SR1 /\ i2c_bus_error = 0
        \/ c.pc \in {"r1_rxne", "rn_last"} /\ "RXNE" \notin r.SR1
        \/ c.pc = "rn_loop" /\ c.i < c.len - 3 /\ "RXNE" \notin r.SR1
        \/ c.pc = "rn_loop" /\ ~(c.i < c.len - 3) /\ "BTF" \notin r.SR1
        \/ c.pc = "r2_btf" /\ "BTF" \notin r.SR1
        \/ c.pc \in {"r1_stop", "r2_stop", "rn_stop"} /\ "STOP" \in r.CR1
        \/ c.pc = "w_txe" /\ "TXE" \notin r.ISR
        \/ c.pc = "stop_tc" /\ "TC" \notin r.ISR

-----------------------------------------------------------------------------
(* Properties of _i2c_init *)

\* C32: i2c_init_master returns 0 with PE set, NOSTRETCH clear, the own
\* address register 0 and the timing register holding the packed value of
\* the prescaler chosen; and the statement that writes the timing register
\* runs with PE clear.
C32_InitMasterResult ==
    [][InitMasterStep =>
          /\ (im'.pc = "done" /\ im'.ret = 0) =>
                 /\ "PE" \in hw'[im'.dev].CR1
                 /\ "NOSTRETCH" \notin hw'[im'.dev].CR1
                 /\ hw'[im'.dev].OAR1 = 0
                 /\ hw'[im'.dev].TIMINGR = TimingValue(apbclk, im'.speed, im'.presc)
          /\ (im.pc = "init3" /\ im'.pc = "init4") =>
                 "PE" \notin hw[im.dev].CR1]_vars


\* the bits of control register 1 that _i2c_init is to configure
InitBits == {"PE", "ANFOFF", "NOSTRETCH"}

\* C39: no statement of _i2c_init changes a bit of control register 1 other
\* than PE, ANFOFF and NOSTRETCH (SWRST, START, STOP, ACK, POS and the
\* interrupt enables keep their values), and ANFOFF is clear when it ends.
C39_InitTouchesThreeBits ==
    [][(InitMasterStep /\ im.pc \in {"init1", "init2", "init3", "init4"}) =>
          /\ hw'[im.dev].CR1 \ InitBits = hw[im.dev].CR1 \ InitBits
          /\ im'.pc = "done" => "ANFOFF" \notin hw'[im.dev].CR1]_vars

-----------------------------------------------------------------------------
(* Properties of the shared status variables *)

\* the controller with register block r has raised a fault in the running
\* address phase: a fault bit stands in its status register, or its address
\* phase was ended by a missing acknowledge or a lost arbitration
OwnFault(r) == r.ISR \cap FaultBits # {} \/ r.phase = "lost"

\* C33: the address wait of a transaction on one bus takes its fault branch
\* (bus reset, return -1) only for a fault of that bus; a fault code recorded
\* by the error ISR of the other bus does not abort it.
C33_FaultsStayOnTheirBus ==
    [][\A t \in Threads : FaultReset(t) => OwnFault(hw[th[t].dev])]_vars


\* C34: with two threads in calls on two buses, a call goes on to its data
\* phase exactly when its own _start returned 0, and a call that fails
\* returns the status of its own _start.
C34_OwnStartDecides ==
    [][\A t \in Threads :
          /\ (th[t].pc = "chk" /\ th'[t].pc # "chk") =>
                 (th'[t].pc = "fail" <=> th[t].rc < 0)
          /\ (th[t].pc = "fail" /\ th'[t].pc = "ret") =>
                 th'[t].ret = th[t].rc]_vars

-----------------------------------------------------------------------------
(* Properties of the length argument of i2c_read_bytes *)

\* the positions of the default path of i2c_read_bytes
StreamPositions == {"rn_clr", "rn_loop", "rn_crit", "rn_rd", "rn_last", "rn_stop"}

\* C35: whatever length i2c_read_bytes is called with, it stores bytes at
\* the indices 0 .. length-1 of the buffer only, reads the data register at
\* most length times, and runs the default path with its three-byte tail
\* only when length is 3 or more.
C35_ReadStaysInsideLength ==
    \A t \in Threads :
        (th[t].api \in {"read_bytes", "read_regs"} /\ th[t].dev \in Buses) =>
            /\ \A k \in 0 .. (BufSize - 1) :
                  k >= th[t].len => th[t].buf[k] = NoByte
            /\ th[t].fn = "read_bytes" => th[t].i <= th[t].len
            /\ th[t].pc \in StreamPositions => th[t].len >= 3

-----------------------------------------------------------------------------
(* Properties of the interrupt mask *)

-----------------------------------------------------------------------------
(* The busy wait of _start on its own, from any reading of the timer *)

\* the readings of xtimer_now_usec() at which a call begins: 1 and TickUs
\* microseconds before the wrap-around, 91072 before it, at 0, and at 2^31
StartValues ==
    {W32(Half - 1, Half - 1), ClockStart, W32(Half - 2, 40000), W32(0, 0),
     W32(Half \div 2, 0)}

\* the time between two looks at the timer in the busy wait
TickSteps == {20001, 40000, TickUs}

TickFine == \E us \in TickSteps : Pass(us)

InitTimer ==
    /\ apbclk = BootClk
    /\ now \in StartValues
    /\ env = [NoEnv EXCEPT !.callers = {"t1"}, !.booted = TRUE]
    /\ sys = [clk_en |-> Buses, irq_en |-> Buses,
              irq_prio |-> [b \in Buses |-> "I2C_IRQ_PRIO"],
              gpio |-> [b \in Buses |-> "af"]]
    /\ hw = [b \in Buses |-> I2cInit(InitDisable(PowerOnRegs), BootTiming)]
    /\ locks = [b \in Buses |-> [locked |-> FALSE, queue |-> <<>>]]
    /\ th = [t \in Threads |-> IdleThread]
    /\ i2c_bus_error = 0
    /\ i2c_bus_result = 0
    /\ im = IdleMain

NextTimer ==
    \/ \E t \in Threads, dev \in Buses : i2c_acquire(t, dev)
    \/ \E t \in Threads, dev \in Buses : i2c_write_byte(t, dev)
    \/ \E t \in Threads : StartBusy(t)
    \/ \E b \in Buses : EnvBusy(b)
    \/ \E b \in Buses : EnvFree(b)
    \/ TickFine

SpecTimer == InitTimer /\ [][NextTimer]_vars

\* C37: in the busy wait of _start the test of line 476, made on uint32_t,
\* is true exactly when more than 100000 microseconds have passed since
\* time_now was read, whatever the timer showed then; and the bus is reset
\* there only when the test is true.
C37_TimeoutAcrossWrap ==
    [][\A t \in Threads :
          th[t].pc = "st_busy" =>
            /\ GtTime(Sub32(now, th[t].time_now), BUSY_TIMEOUT_US)
                 <=> th[t].waited > BUSY_TIMEOUT_US
            /\ ResetStep(t) => th[t].waited > BUSY_TIMEOUT_US]_vars

\* a call that began less than 100000 microseconds before the wrap-around has
\* reset its bus after it
C37_Witness ==
    \E t \in Threads :
        /\ th[t].pc = "st_busy"
        /\ th[t].time_now[1] = Half - 1
        /\ now[1] = 0
        /\ th[t].waited = BUSY_TIMEOUT_US + 1
        /\ th[t].nreset > 0

-----------------------------------------------------------------------------
(* Termination of the transaction functions *)

\* the calling thread runs: a polling loop that finds its flag again and
\* again leaves at one of those looks, and straight-line code goes on
Running == \A t \in Threads : SF_vars(Transact(t))

SpecLive == Init /\ [][Next]_vars /\ Running

\* t is in the busy wait of _start and the wire is busy
BusyHeld(t) == th[t].pc = "st_busy" /\ Busy(hw[th[t].dev])

\* t is inside a transaction function called on a valid bus with a length of
\* at least 1
InCall(t) ==
    /\ th[t].api \in {"read_bytes", "read_regs", "write_bytes", "write_regs"}
    /\ th[t].dev \in Buses
    /\ th[t].len >= 1
    /\ th[t].pc \notin Rest

\* C38: if the wire is free again and again, and every flag a call waits for
\* is there again and again, then every call of a read or write function on
\* a valid bus with a length of at least 1 returns.
C38_CallsTerminate ==
    (\A t \in Threads : []<>~(Awaiting(t) \/ BusyHeld(t)))
        => \A t \in Threads : InCall(t) ~> (th[t].pc \in Rest)

\* a register read of MaxLen bytes has returned its length after a bus reset
\* in its busy wait
C38_Witness ==
    \E t \in Threads :
        /\ th[t].api = "read_regs"
        /\ th[t].dev \in Buses
        /\ th[t].len = MaxLen
        /\ th[t].pc = "ret"
        /\ th[t].ret = MaxLen
        /\ th[t].nreset > 0

=============================================================================
